---- MODULE Spec2Model ----
(***************************************************************************)
(* A model of the quantum-circuit optimizer's middle end and routing       *)
(* backend: the gate IR (Gate, Circuit, DAG), the cancellation pass, the   *)
(* device Topology and the SABRE router.                                   *)
(*                                                                         *)
(* Conventions.                                                            *)
(*  - std::optional<Angle> is a sequence: << >> is std::nullopt, <<a>> an  *)
(*    angle a (angles are abstract integers; the router and the DAG only   *)
(*    copy them).                                                          *)
(*  - The SIZE_MAX sentinels (INVALID_GATE_ID, INVALID_LOGICAL, INFINITE)  *)
(*    are the value -1, which no index, id or distance takes.              *)
(*  - std::unordered_map / std::unordered_set iterate in an unspecified    *)
(*    order: wherever the code's result depends on that order the model    *)
(*    takes every order.                                                   *)
(*  - A C++ exception is a result with threw = TRUE; what the callee had   *)
(*    already changed when it threw stays changed.                         *)
(***************************************************************************)
EXTENDS Integers, Sequences, FiniteSets, TLC

\* ------------------------------------------------------------------------
\* Bounds of the model
\* ------------------------------------------------------------------------

\* Largest qubit register of an input circuit of the router.
MaxQubits == 3
\* Largest number of gates of an input circuit of the router.
MaxGates == 2
\* Largest size n of the linear(n) and ring(n) device topologies.
MaxPhys == 4
\* Cap on the SWAPs one routing call may insert before the model stops it.
MaxSwaps == 6
\* Largest qubit register of a DAG driven directly.
DagQubits == 2
\* How many gate ids a DAG driven directly may hand out.
MaxNodes == 4

\* ------------------------------------------------------------------------
\* Program constants
\* ------------------------------------------------------------------------

MAX_QUBITS == 30
INVALID_GATE_ID == -1
INVALID_LOGICAL == -1
INFINITE == -1

\* ------------------------------------------------------------------------
\* Sequence helpers (std::find, vector::erase, std::reverse)
\* ------------------------------------------------------------------------

Contains(s, x) == \E i \in 1..Len(s) : s[i] = x

Range(s) == {s[i] : i \in 1..Len(s)}

\* vector::erase(std::find(...)): the first occurrence only.
RemoveFirst(s, x) ==
    IF ~Contains(s, x) THEN s
    ELSE LET i == CHOOSE k \in 1..Len(s) :
                      s[k] = x /\ \A j \in 1..(k - 1) : s[j] # x
         IN  SubSeq(s, 1, i - 1) \o SubSeq(s, i + 1, Len(s))

AppendIfAbsent(s, x) == IF Contains(s, x) THEN s ELSE Append(s, x)

Reverse(s) == [i \in 1..Len(s) |-> s[Len(s) + 1 - i]]

\* Every sequence that lists each element of S exactly once.
Perms(S) ==
    {p \in [1..Cardinality(S) -> S] : \A i, j \in 1..Cardinality(S) : p[i] = p[j] => i = j}

Max2(a, b) == IF a >= b THEN a ELSE b

\* ------------------------------------------------------------------------
\* Gate (include/ir/Gate.hpp)
\* ------------------------------------------------------------------------

OneQubitTypes == {"H", "X", "Y", "Z", "S", "Sdg", "T", "Tdg", "Rx", "Ry", "Rz"}
TwoQubitTypes == {"CNOT", "CZ", "SWAP"}
GateTypes == OneQubitTypes \cup TwoQubitTypes

numQubitsFor(type) == IF type \in {"CNOT", "CZ", "SWAP"} THEN 2 ELSE 1

isParameterized(type) == type \in {"Rx", "Ry", "Rz"}

isHermitian(type) == type \in {"H", "X", "Y", "Z", "CNOT", "CZ", "SWAP"}

\* Gate::validate: TRUE when the constructor does not throw.
validate(type, qubits, parameter) ==
    /\ Len(qubits) = numQubitsFor(type)
    /\ (isParameterized(type) => parameter # << >>)

\* The Gate value the general constructor builds (id = INVALID_GATE_ID).
Gate(type, qubits, parameter) ==
    [type |-> type, qubits |-> qubits, parameter |-> parameter, id |-> INVALID_GATE_ID]

\* Gate::swap(q1, q2); callers in the model pass q1 # q2.
GateSwap(q1, q2) == Gate("SWAP", <<q1, q2>>, << >>)

\* Gate::operator== (ignores the id).
GateEq(g1, g2) ==
    g1.type = g2.type /\ g1.qubits = g2.qubits /\ g1.parameter = g2.parameter

\* ------------------------------------------------------------------------
\* Circuit (include/ir/Circuit.hpp)
\* ------------------------------------------------------------------------

\* Circuit::Circuit: TRUE when the constructor does not throw.
CircuitCtorOk(num_qubits) == num_qubits # 0 /\ num_qubits <= MAX_QUBITS

CircuitNew(num_qubits) ==
    [num_qubits |-> num_qubits, next_gate_id |-> 0, gates |-> << >>]

\* Circuit::validateGateQubits / DAG::validateGateQubits.
validateGateQubits(num_qubits, g) ==
    \A i \in 1..Len(g.qubits) : g.qubits[i] < num_qubits

\* Circuit::addGate on a gate that passes validateGateQubits.
CircuitAddGate(c, g) ==
    [c EXCEPT !.gates = Append(@, [g EXCEPT !.id = c.next_gate_id]),
              !.next_gate_id = @ + 1]

RECURSIVE DepthScan(_, _, _)
\* Circuit::depth: the qubit_depths array after scanning gates[i..].
DepthScan(gates, i, qubit_depths) ==
    IF i > Len(gates) THEN qubit_depths
    ELSE LET qs == gates[i].qubits
             max_depth == IF Len(qs) = 1 THEN Max2(0, qubit_depths[qs[1]])
                          ELSE Max2(Max2(0, qubit_depths[qs[1]]), qubit_depths[qs[2]])
         IN  DepthScan(gates, i + 1,
                 [q \in DOMAIN qubit_depths |->
                     IF q \in Range(qs) THEN max_depth + 1 ELSE qubit_depths[q]])

CircuitDepth(c) ==
    IF c.gates = << >> THEN 0
    ELSE LET d == DepthScan(c.gates, 1, [q \in 0..(c.num_qubits - 1) |-> 0])
         IN  CHOOSE m \in Range([i \in 1..c.num_qubits |-> d[i - 1]]) :
                 \A q \in DOMAIN d : d[q] <= m

\* ------------------------------------------------------------------------
\* Topology (include/routing/Topology.hpp)
\* ------------------------------------------------------------------------

\* Topology::Topology(num_qubits), num_qubits >= 1.
TopologyNew(num_qubits) ==
    [num_qubits |-> num_qubits,
     adjacency |-> [q \in 0..(num_qubits - 1) |-> << >>],
     edges |-> << >>,
     distance_cache |-> << >>,
     distance_computed |-> FALSE]

\* A faulty connected that takes any two qubits of the device for joined.
connectedAnyPair(t, q1, q2) == q1 < t.num_qubits /\ q2 < t.num_qubits

\* Topology::connected.
connected(t, q1, q2) ==
    IF q1 >= t.num_qubits \/ q2 >= t.num_qubits THEN FALSE
    ELSE IF q1 = q2 THEN TRUE
    ELSE Contains(t.adjacency[q1], q2)

\* A faulty addEdge that leaves the distance cache marked as computed.
addEdgeKeepCache(t, q1, q2) ==
    IF ~connected(t, q1, q2)
    THEN [t EXCEPT !.adjacency[q1] = Append(@, q2),
                   !.adjacency[q2] = Append(@, q1),
                   !.edges = Append(@, <<IF q1 <= q2 THEN q1 ELSE q2,
                                         IF q1 <= q2 THEN q2 ELSE q1>>)]
    ELSE t

\* Topology::addEdge on valid, distinct qubits (the other calls throw and
\* change nothing).
addEdge(t, q1, q2) ==
    IF ~connected(t, q1, q2)
    THEN [t EXCEPT !.adjacency[q1] = Append(@, q2),
                   !.adjacency[q2] = Append(@, q1),
                   !.edges = Append(@, <<IF q1 <= q2 THEN q1 ELSE q2,
                                         IF q1 <= q2 THEN q2 ELSE q1>>),
                   !.distance_computed = FALSE]
    ELSE t

neighbors(t, qubit) == t.adjacency[qubit]

RECURSIVE RelaxNeighbors(_, _, _, _, _)
\* The inner for-loop of the BFS of ensureDistanceComputed.
RelaxNeighbors(nbrs, i, current, queue, dist) ==
    IF i > Len(nbrs) THEN [queue |-> queue, dist |-> dist]
    ELSE IF dist[nbrs[i]] = INFINITE
         THEN RelaxNeighbors(nbrs, i + 1, current, Append(queue, nbrs[i]),
                             [dist EXCEPT ![nbrs[i]] = dist[current] + 1])
         ELSE RelaxNeighbors(nbrs, i + 1, current, queue, dist)

RECURSIVE BfsFrom(_, _, _)
\* The while-loop of the BFS of ensureDistanceComputed, from one start.
BfsFrom(t, queue, dist) ==
    IF queue = << >> THEN dist
    ELSE LET r == RelaxNeighbors(t.adjacency[Head(queue)], 1, Head(queue),
                                 Tail(queue), dist)
         IN  BfsFrom(t, r.queue, r.dist)

\* Topology::ensureDistanceComputed: fills the cache unless it is marked
\* computed.
ensureDistanceComputed(t) ==
    IF t.distance_computed THEN t
    ELSE [t EXCEPT
            !.distance_cache =
                [start \in 0..(t.num_qubits - 1) |->
                    BfsFrom(t, <<start>>,
                            [q \in 0..(t.num_qubits - 1) |->
                                IF q = start THEN 0 ELSE INFINITE])],
            !.distance_computed = TRUE]

\* Topology::distance on valid qubits.
distance(t, q1, q2) ==
    IF q1 = q2 THEN 0 ELSE ensureDistanceComputed(t).distance_cache[q1][q2]

RECURSIVE PathRelax(_, _, _, _, _)
\* The inner for-loop of shortestPath: parent pointers.
PathRelax(nbrs, i, current, queue, parent) ==
    IF i > Len(nbrs) THEN [queue |-> queue, parent |-> parent]
    ELSE IF parent[nbrs[i]] = INFINITE
         THEN PathRelax(nbrs, i + 1, current, Append(queue, nbrs[i]),
                        [parent EXCEPT ![nbrs[i]] = current])
         ELSE PathRelax(nbrs, i + 1, current, queue, parent)

RECURSIVE PathBfs(_, _, _, _)
\* The while-loop of shortestPath; it breaks when `to` is dequeued.
PathBfs(t, queue, parent, to) ==
    IF queue = << >> THEN parent
    ELSE IF Head(queue) = to THEN parent
    ELSE LET r == PathRelax(t.adjacency[Head(queue)], 1, Head(queue),
                            Tail(queue), parent)
         IN  PathBfs(t, r.queue, r.parent, to)

\* A faulty reconstruction that steps from `to` straight to `from`.
PathBackDirect(parent, current, from) ==
    IF current = from THEN << >> ELSE <<current>>

RECURSIVE PathBack(_, _, _)
\* The reconstruction loop of shortestPath: to, parent[to], ... before from.
PathBack(parent, current, from) ==
    IF current = from THEN << >>
    ELSE <<current>> \o PathBack(parent, parent[current], from)

\* Topology::shortestPath on valid qubits: the path, or threw (no path).
shortestPath(t, from, to) ==
    IF from = to THEN [threw |-> FALSE, path |-> <<from>>]
    ELSE LET parent == PathBfs(t, <<from>>,
                               [q \in 0..(t.num_qubits - 1) |->
                                   IF q = from THEN from ELSE INFINITE], to)
         IN  IF parent[to] = INFINITE
             THEN [threw |-> TRUE, path |-> << >>]
             ELSE [threw |-> FALSE,
                   path |-> Reverse(Append(PathBack(parent, to, from), from))]

\* Topology::isConnected: the qubits a BFS from qubit 0 reaches are all.
isConnected(t) ==
    IF t.num_qubits <= 1 THEN TRUE
    ELSE LET dist == BfsFrom(t, <<0>>,
                             [q \in 0..(t.num_qubits - 1) |->
                                 IF q = 0 THEN 0 ELSE INFINITE])
         IN  \A q \in 0..(t.num_qubits - 1) : dist[q] # INFINITE

RECURSIVE AddEdges(_, _, _)
\* A run of addEdge calls, in order.
AddEdges(t, es, i) ==
    IF i > Len(es) THEN t
    ELSE AddEdges(addEdge(t, es[i][1], es[i][2]), es, i + 1)

\* Topology::linear(n), n >= 1.
linear(n) == AddEdges(TopologyNew(n), [i \in 1..(n - 1) |-> <<i - 1, i>>], 1)

\* Topology::ring(n), n >= 2.
ring(n) == addEdge(linear(n), 0, n - 1)

RECURSIVE GridEdges(_, _, _)
\* The addEdge calls of Topology::grid for the qubits q, q+1, ...: right
\* neighbour first, then bottom neighbour.
GridEdges(rows, cols, q) ==
    IF q >= rows * cols THEN << >>
    ELSE (IF (q % cols) + 1 < cols THEN <<<<q, q + 1>>>> ELSE << >>)
         \o (IF (q \div cols) + 1 < rows THEN <<<<q, q + cols>>>> ELSE << >>)
         \o GridEdges(rows, cols, q + 1)

\* Topology::grid(rows, cols), rows, cols >= 1.
grid(rows, cols) == AddEdges(TopologyNew(rows * cols), GridEdges(rows, cols, 0), 1)

\* ------------------------------------------------------------------------
\* DAG (include/ir/DAG.hpp)
\* ------------------------------------------------------------------------

\* DAG::DAG(num_qubits), 1 <= num_qubits <= MAX_QUBITS.  nodes is the
\* id-keyed map nodes_: its domain is the set of live ids.
DagNew(num_qubits) ==
    [num_qubits |-> num_qubits,
     next_gate_id |-> 0,
     nodes |-> << >>,
     last_gate_on_qubit |-> [q \in 0..(num_qubits - 1) |-> INVALID_GATE_ID]]

hasNode(d, id) == id \in DOMAIN d.nodes

hasEdge(d, from_id, to_id) ==
    IF ~hasNode(d, from_id) \/ ~hasNode(d, to_id) THEN FALSE
    ELSE Contains(d.nodes[from_id].successors, to_id)

inDegree(d, id) == Len(d.nodes[id].predecessors)

RECURSIVE ConnectPredecessors(_, _, _, _)
\* The for-loop of DAG::addGate over the new gate's qubits.  The new node is
\* not in nodes_ yet, so nodes_.at(pred_id) throws std::out_of_range when
\* pred_id is not a live node; what the loop did before stays done.
ConnectPredecessors(st, id, qs, i) ==
    IF i > Len(qs) \/ st.threw THEN st
    ELSE LET pred_id == st.last[qs[i]] IN
         IF pred_id = INVALID_GATE_ID
         THEN ConnectPredecessors([st EXCEPT !.last[qs[i]] = id], id, qs, i + 1)
         ELSE IF pred_id \notin DOMAIN st.nodes
         THEN [st EXCEPT !.threw = TRUE]
         ELSE ConnectPredecessors(
                  [st EXCEPT !.preds = Append(@, pred_id),
                             !.nodes[pred_id].successors = Append(@, id),
                             !.last[qs[i]] = id],
                  id, qs, i + 1)

\* DAG::addGate: the DAG after the call, whether it threw, and the id.
DagAddGate(d, gate) ==
    IF ~validateGateQubits(d.num_qubits, gate)
    THEN [dag |-> d, threw |-> TRUE, id |-> INVALID_GATE_ID]
    ELSE LET id == d.next_gate_id
             st == ConnectPredecessors(
                       [nodes |-> d.nodes, last |-> d.last_gate_on_qubit,
                        preds |-> << >>, threw |-> FALSE],
                       id, gate.qubits, 1)
             node == [gate |-> [gate EXCEPT !.id = id],
                      predecessors |-> st.preds,
                      successors |-> << >>]
         IN  [dag |-> [d EXCEPT !.next_gate_id = id + 1,
                                !.nodes = IF st.threw THEN st.nodes
                                          ELSE (id :> node) @@ st.nodes,
                                !.last_gate_on_qubit = st.last],
              threw |-> st.threw,
              id |-> IF st.threw THEN INVALID_GATE_ID ELSE id]

RECURSIVE AddAllAbsent(_, _, _)
\* Append each element of xs that s does not hold yet ("avoid duplicates").
AddAllAbsent(s, xs, i) ==
    IF i > Len(xs) THEN s
    ELSE AddAllAbsent(AppendIfAbsent(s, xs[i]), xs, i + 1)

RECURSIVE ReconnectPreds(_, _, _, _)
\* First loop of DAG::removeNode: each predecessor drops id and gains the
\* target's successors.  nodes_.at(pred_id) throws when pred_id is not live.
ReconnectPreds(st, id, target, i) ==
    IF i > Len(target.predecessors) \/ st.threw THEN st
    ELSE LET pred_id == target.predecessors[i] IN
         IF pred_id \notin DOMAIN st.nodes
         THEN [st EXCEPT !.threw = TRUE]
         ELSE ReconnectPreds(
                  [st EXCEPT !.nodes[pred_id].successors =
                                 AddAllAbsent(RemoveFirst(@, id), target.successors, 1)],
                  id, target, i + 1)

RECURSIVE ReconnectSuccs(_, _, _, _)
\* Second loop of DAG::removeNode: each successor drops id and gains the
\* target's predecessors.  nodes_.at(succ_id) throws when succ_id is not live.
ReconnectSuccs(st, id, target, i) ==
    IF i > Len(target.successors) \/ st.threw THEN st
    ELSE LET succ_id == target.successors[i] IN
         IF succ_id \notin DOMAIN st.nodes
         THEN [st EXCEPT !.threw = TRUE]
         ELSE ReconnectSuccs(
                  [st EXCEPT !.nodes[succ_id].predecessors =
                                 AddAllAbsent(RemoveFirst(@, id), target.predecessors, 1)],
                  id, target, i + 1)

\* The repair of last_gate_on_qubit_[q] in DAG::removeNode: the first
\* predecessor of the removed node, in list order, whose gate touches q.
NewLastOnQubit(nodes, target, q) ==
    LET hits == {i \in 1..Len(target.predecessors) :
                    Contains(nodes[target.predecessors[i]].gate.qubits, q)}
    IN  IF hits = {} THEN INVALID_GATE_ID
        ELSE target.predecessors[CHOOSE i \in hits : \A j \in hits : i <= j]

\* DAG::removeNode: the DAG after the call and whether it threw.  An unknown
\* id throws before anything changes; a dangling neighbour id throws midway.
DagRemoveNode(d, id) ==
    IF ~hasNode(d, id) THEN [dag |-> d, threw |-> TRUE]
    ELSE LET target == d.nodes[id]
             s1 == ReconnectPreds([nodes |-> d.nodes, threw |-> FALSE], id, target, 1)
             s2 == ReconnectSuccs(s1, id, target, 1)
         IN  IF s2.threw
             THEN [dag |-> [d EXCEPT !.nodes = s2.nodes], threw |-> TRUE]
             ELSE [dag |-> [d EXCEPT
                       !.nodes = [n \in DOMAIN s2.nodes \ {id} |-> s2.nodes[n]],
                       !.last_gate_on_qubit =
                           [q \in DOMAIN d.last_gate_on_qubit |->
                               IF Contains(target.gate.qubits, q)
                                  /\ d.last_gate_on_qubit[q] = id
                               THEN NewLastOnQubit(s2.nodes, target, q)
                               ELSE d.last_gate_on_qubit[q]]],
                   threw |-> FALSE]

RECURSIVE FromCircuitLoop(_, _, _)
\* The loop of DAG::fromCircuit; an addGate that throws ends it.
FromCircuitLoop(r, gates, i) ==
    IF i > Len(gates) \/ r.threw THEN r
    ELSE FromCircuitLoop(DagAddGate(r.dag, gates[i]), gates, i + 1)

\* DAG::fromCircuit.
fromCircuit(circuit) ==
    FromCircuitLoop([dag |-> DagNew(circuit.num_qubits), threw |-> FALSE,
                     id |-> INVALID_GATE_ID],
                    circuit.gates, 1)

\* DAG::sources, as a set: the order of the returned vector is the iteration
\* order of the unordered_map nodes_.
sources(d) == {id \in DOMAIN d.nodes : d.nodes[id].predecessors = << >>}

RECURSIVE KahnRelax(_, _, _, _)
\* Inner loop of topologicalOrder: --in_degree[succ_id] == 0 pushes.  An id
\* that in_degree does not hold yet is created at 0 by operator[] and wraps
\* below it: it never reads 0 again.
KahnRelax(succs, i, ready, in_degree) ==
    IF i > Len(succs) THEN [ready |-> ready, in_degree |-> in_degree]
    ELSE LET s == succs[i]
             old == IF s \in DOMAIN in_degree THEN in_degree[s] ELSE 0
             deg == (s :> (old - 1)) @@ in_degree
         IN  KahnRelax(succs, i + 1,
                       IF old - 1 = 0 THEN Append(ready, s) ELSE ready, deg)

RECURSIVE KahnLoop(_, _, _, _)
KahnLoop(d, ready, in_degree, result) ==
    IF ready = << >> THEN result
    ELSE LET current == Head(ready)
             r == KahnRelax(d.nodes[current].successors, 1, Tail(ready), in_degree)
         IN  KahnLoop(d, r.ready, r.in_degree, Append(result, current))

\* DAG::topologicalOrder, with the zero-in-degree nodes queued in the order
\* `first` (a permutation of sources(d)): the order, or threw (logic_error,
\* "DAG contains a cycle") when it does not hold every node.
topologicalOrder(d, first) ==
    IF DOMAIN d.nodes = {} THEN [threw |-> FALSE, order |-> << >>]
    ELSE LET result == KahnLoop(d, first,
                                [id \in DOMAIN d.nodes |-> inDegree(d, id)], << >>)
         IN  IF Len(result) # Cardinality(DOMAIN d.nodes)
             THEN [threw |-> TRUE, order |-> << >>]
             ELSE [threw |-> FALSE, order |-> result]

\* ------------------------------------------------------------------------
\* Router and SabreRouter (include/routing/Router.hpp, SabreRouter.hpp)
\* ------------------------------------------------------------------------

\* SabreRouter's default lookahead_depth.
lookahead_depth == 20
\* Scores are kept in units of decay_factor * extended_set_weight = 0.5 * 0.5
\* = 1/4 (the defaults), so that they are integers: score * ScoreScale.
ScoreScale == 4

\* The SabreRouter object: the arguments of its constructor, which keeps
\* them as given.  decay_weight is decay_factor_ * extended_set_weight_ in
\* units of 1 / ScoreScale, the only way scoreSwap uses the two.
VARIABLE router

\* SabreRouter(): lookahead_depth 20, decay_factor 0.5, extended_set_weight
\* 0.5.
DefaultRouter == [lookahead_depth |-> lookahead_depth, decay_weight |-> 1]

\* Router::validateRouteInputs: TRUE when it does not throw.
validateRouteInputs(circuit, topology) == circuit.num_qubits <= topology.num_qubits

\* Router::identityMapping / SabreRouter::initialMapping.
identityMapping(num_qubits) == [l \in 0..(num_qubits - 1) |-> l]

\* SabreRouter::computeReverseMapping.
computeReverseMapping(mapping, num_physical) ==
    [p \in 0..(num_physical - 1) |->
        IF \E l \in DOMAIN mapping : mapping[l] = p
        THEN CHOOSE l \in DOMAIN mapping :
                 mapping[l] = p /\ \A k \in DOMAIN mapping : mapping[k] = p => k <= l
        ELSE INVALID_LOGICAL]

\* The mapping scoreSwap scores: the logical qubits it last finds at p0 and
\* p1 (if any) exchanged.
SimulateSwap(mapping, p0, p1) ==
    LET at0 == {l \in DOMAIN mapping : mapping[l] = p0}
        at1 == {l \in DOMAIN mapping : mapping[l] = p1}
        logical0 == IF at0 = {} THEN INVALID_LOGICAL
                    ELSE CHOOSE l \in at0 : \A k \in at0 : k <= l
        logical1 == IF at1 = {} THEN INVALID_LOGICAL
                    ELSE CHOOSE l \in at1 : \A k \in at1 : k <= l
    IN  [l \in DOMAIN mapping |->
            IF l = logical1 THEN p0
            ELSE IF l = logical0 THEN p1
            ELSE mapping[l]]

RECURSIVE ExtendedSet(_, _, _, _, _)
\* The extended (lookahead) set of scoreSwap: the unexecuted successors of
\* the front-layer gates, front gate by front gate, until the set holds
\* lookahead_depth ids when the next front gate is reached.
ExtendedSet(d, front_layer, i, executed, extended) ==
    IF i > Len(front_layer) \/ Cardinality(extended) >= router.lookahead_depth
    THEN extended
    ELSE ExtendedSet(d, front_layer, i + 1, executed,
             extended \cup (Range(d.nodes[front_layer[i]].successors) \ executed))

\* The distance of a gate's two operands under a mapping.
GateDistance(d, topology, m, id) ==
    distance(topology, m[d.nodes[id].gate.qubits[1]], m[d.nodes[id].gate.qubits[2]])

RECURSIVE SumFinite(_, _, _, _)
\* Sum of the finite distances of the two-qubit gates ids[i..].
SumFinite(d, topology, m, ids) ==
    IF ids = << >> THEN 0
    ELSE LET id == Head(ids)
             x == IF Len(d.nodes[id].gate.qubits) = 2
                  THEN GateDistance(d, topology, m, id) ELSE 0
         IN  (IF x = INFINITE THEN 0 ELSE x) + SumFinite(d, topology, m, Tail(ids))

\* How many two-qubit gates among ids are at INFINITE distance.
CountInfinite(d, topology, m, ids) ==
    Cardinality({i \in 1..Len(ids) :
        /\ Len(d.nodes[ids[i]].gate.qubits) = 2
        /\ GateDistance(d, topology, m, ids[i]) = INFINITE})

\* Any enumeration of a finite set, for sums that do not depend on order.
SeqOf(S) == CHOOSE p \in Perms(S) : TRUE

\* A faulty scoreSwap that gives every candidate the same score.
scoreSwapFlat(p0, p1, d, topology, mapping, front_layer, executed) ==
    [inf |-> 0, fin |-> 0]

\* SabreRouter::scoreSwap, as a pair: inf counts the INFINITE distances
\* (front-layer ones ScoreScale times, lookahead ones once) and fin is the
\* sum of the finite ones in the same units.  A double holding an INFINITE
\* term (2^64, or 2^62 from the lookahead) absorbs every finite distance
\* added to it, so fin is 0 unless inf is.
scoreSwap(p0, p1, d, topology, mapping, front_layer, executed) ==
    LET new_mapping == SimulateSwap(mapping, p0, p1)
        extended == SeqOf(ExtendedSet(d, front_layer, 1, executed, {}))
        inf == ScoreScale * CountInfinite(d, topology, new_mapping, front_layer)
               + router.decay_weight * CountInfinite(d, topology, new_mapping, extended)
        fin == ScoreScale * SumFinite(d, topology, new_mapping, front_layer)
               + router.decay_weight * SumFinite(d, topology, new_mapping, extended)
    IN  [inf |-> inf, fin |-> IF inf > 0 THEN 0 ELSE fin]

\* score < best_score on doubles.
ScoreLess(a, b) == a.inf < b.inf \/ (a.inf = b.inf /\ a.fin < b.fin)

\* The set active_physical of selectBestSwap.
ActivePhysical(d, mapping, front_layer) ==
    UNION {{mapping[d.nodes[front_layer[i]].gate.qubits[1]],
            mapping[d.nodes[front_layer[i]].gate.qubits[2]]} :
           i \in {k \in 1..Len(front_layer) :
                      Len(d.nodes[front_layer[k]].gate.qubits) = 2}}

\* The pairs selectBestSwap can end on, given each candidate's score: a
\* candidate <<p, i>> (the i-th neighbour of p) of least score with no
\* candidate of least score before it among p's.
FirstLeast(topology, score) ==
    {<<c[1], neighbors(topology, c[1])[c[2]]>> : c \in
        {x \in DOMAIN score :
            /\ \A o \in DOMAIN score : ~ScoreLess(score[o], score[x])
            /\ \A o \in DOMAIN score :
                   (o[1] = x[1] /\ ~ScoreLess(score[x], score[o])) => x[2] <= o[2]}}

\* SabreRouter::selectBestSwap: every pair it can return.  It keeps the first
\* candidate of least score; the candidates come active qubit by active
\* qubit (an unordered_set: any order), each with its neighbours in
\* adjacency order.  With no candidate it returns the INVALID pair.
selectBestSwap(d, topology, mapping, front_layer, executed) ==
    LET active == ActivePhysical(d, mapping, front_layer)
        cands == {c \in active \X (1..topology.num_qubits) :
                     c[2] <= Len(neighbors(topology, c[1]))}
    IN  IF cands = {} THEN {<<INVALID_LOGICAL, INVALID_LOGICAL>>}
        ELSE UNION {FirstLeast(topology, score) : score \in
                 {[c \in cands |-> scoreSwap(c[1], neighbors(topology, c[1])[c[2]], d,
                                             topology, mapping, front_layer, executed)]}}

\* A faulty insertSwap that moves only the logical qubit found at p0.
insertSwapOneSided(p0, p1, m, rm, routed_c) ==
    [routed |-> CircuitAddGate(routed_c, GateSwap(p0, p1)),
     mapping |-> IF rm[p0] # INVALID_LOGICAL THEN [m EXCEPT ![rm[p0]] = p1] ELSE m,
     reverse_mapping |-> [rm EXCEPT ![p0] = rm[p1], ![p1] = rm[p0]]]

\* A faulty insertSwap that leaves reverse_mapping as it was.
insertSwapStaleReverse(p0, p1, m, rm, routed_c) ==
    LET m1 == IF rm[p0] # INVALID_LOGICAL THEN [m EXCEPT ![rm[p0]] = p1] ELSE m
        m2 == IF rm[p1] # INVALID_LOGICAL THEN [m1 EXCEPT ![rm[p1]] = p0] ELSE m1
    IN  [routed |-> CircuitAddGate(routed_c, GateSwap(p0, p1)),
         mapping |-> m2,
         reverse_mapping |-> rm]

\* SabreRouter::insertSwap (p0 # p1 and both below the routed circuit's
\* width at every call): the SWAP gate appended, both arrays updated.
insertSwap(p0, p1, m, rm, routed_c) ==
    LET logical0 == rm[p0]
        logical1 == rm[p1]
        m1 == IF logical0 # INVALID_LOGICAL THEN [m EXCEPT ![logical0] = p1] ELSE m
        m2 == IF logical1 # INVALID_LOGICAL THEN [m1 EXCEPT ![logical1] = p0] ELSE m1
    IN  [routed |-> CircuitAddGate(routed_c, GateSwap(p0, p1)),
         mapping |-> m2,
         reverse_mapping |-> [rm EXCEPT ![p0] = logical1, ![p1] = logical0]]

RECURSIVE ExecutePass(_, _, _, _, _, _)
\* The for-loop of routeForward over the front layer: a one-qubit gate is
\* emitted on its image, a two-qubit gate on its images when they are
\* connected, and is blocked otherwise.  acc.emitted lists, for each gate of
\* acc.routed, the DAG node it came from.
ExecutePass(d, topology, m, front, i, acc) ==
    IF i > Len(front) THEN acc
    ELSE LET id == front[i]
             gate == d.nodes[id].gate
             emit(qs) == [acc EXCEPT
                 !.routed = CircuitAddGate(@, Gate(gate.type, qs, gate.parameter)),
                 !.executed_this_round = Append(@, id),
                 !.emitted = Append(@, id)]
         IN  IF Len(gate.qubits) = 1
             THEN ExecutePass(d, topology, m, front, i + 1, emit(<<m[gate.qubits[1]]>>))
             ELSE LET p0 == m[gate.qubits[1]]
                      p1 == m[gate.qubits[2]]
                  IN  IF connected(topology, p0, p1)
                      THEN ExecutePass(d, topology, m, front, i + 1, emit(<<p0, p1>>))
                      ELSE ExecutePass(d, topology, m, front, i + 1,
                               [acc EXCEPT !.blocked = Append(@, id)])

\* A faulty release that readies every successor, whatever it still waits
\* for.
ReleaseEverySuccessor(succs, i, st) == [st EXCEPT !.blocked = @ \o succs]

RECURSIVE ReleaseSuccessors(_, _, _)
\* --remaining_deps[succ] == 0 pushes succ onto blocked, successor by
\* successor.
ReleaseSuccessors(succs, i, st) ==
    IF i > Len(succs) THEN st
    ELSE LET s == succs[i]
             left == st.remaining_deps[s] - 1
         IN  ReleaseSuccessors(succs, i + 1,
                 [st EXCEPT !.remaining_deps[s] = left,
                            !.blocked = IF left = 0 THEN Append(@, s) ELSE @])

RECURSIVE MarkExecuted(_, _, _, _)
\* The loop over executed_this_round: each gate joins executed and releases
\* its successors.
MarkExecuted(d, ids, i, st) ==
    IF i > Len(ids) THEN st
    ELSE MarkExecuted(d, ids, i + 1,
             ReleaseSuccessors(d.nodes[ids[i]].successors, 1,
                 [st EXCEPT !.executed = @ \cup {ids[i]}]))

\* RoutingResult as route fills it.
RoutingResult(routed_c, initial_mapping, final_mapping, swaps, original_depth) ==
    [routed_circuit |-> routed_c,
     initial_mapping |-> initial_mapping,
     final_mapping |-> final_mapping,
     swaps_inserted |-> swaps,
     original_depth |-> original_depth,
     final_depth |-> CircuitDepth(routed_c)]

\* ------------------------------------------------------------------------
\* State
\* ------------------------------------------------------------------------

VARIABLES
    circuit,          \* the caller's ir::Circuit
    topology,         \* the caller's Topology
    pc,               \* "build": route not called yet; "loop": inside the
                      \* while-loop of routeForward; "done": route returned;
                      \* "error": route threw
    err,              \* the exception route threw, "" if none
    dag,              \* route's local DAG
    mapping,          \* logical -> physical
    reverse_mapping,  \* physical -> logical or INVALID_LOGICAL
    executed,         \* routeForward's set of executed ids
    remaining_deps,   \* routeForward's map id -> unexecuted predecessors
    front_layer,      \* routeForward's front layer
    routed,           \* the routed circuit under construction
    swaps_inserted,
    emitted,          \* history: for each gate of routed, the DAG node it was
                      \* emitted for, INVALID_GATE_ID for an inserted SWAP
    result,           \* the RoutingResult route returned (when pc = "done")
    wdag,             \* a DAG driven through its public interface
    dag_err,          \* the exception the last call on wdag threw, "" if none
    dag_threw,        \* history: some call on wdag has thrown
    last_pass,        \* history: what the CancellationPass::run that was the
                      \* last call on wdag started from and did
    last_call         \* history: the last call observed on a value built by
                      \* the caller: its name, its arguments, what it returned
                      \* or that it threw

routeVars == <<router, circuit, topology, pc, err, dag, mapping, reverse_mapping,
               executed, remaining_deps, front_layer, routed, swaps_inserted, emitted,
               result>>
dagVars == <<wdag, dag_err, dag_threw, last_pass>>
callVars == <<last_call>>
vars == <<routeVars, dagVars, callVars>>

\* The values the route locals hold while route is not running.
NoRoute ==
    /\ dag = DagNew(1)
    /\ mapping = << >>
    /\ reverse_mapping = << >>
    /\ executed = {}
    /\ remaining_deps = << >>
    /\ front_layer = << >>
    /\ routed = CircuitNew(1)
    /\ swaps_inserted = 0
    /\ emitted = << >>
    /\ result = RoutingResult(CircuitNew(1), << >>, << >>, 0, 0)

NoPass == [ran |-> FALSE, before |-> DagNew(1), pairs |-> {}, gates_removed |-> 0]

\* No call observed yet.
NoCall == [op |-> "none"]

\* The values of the DAG variables while no DAG is driven.
NoDag ==
    /\ wdag = DagNew(1)
    /\ dag_err = ""
    /\ dag_threw = FALSE
    /\ last_pass = NoPass

\* ------------------------------------------------------------------------
\* Routing: a caller builds a circuit, then calls SabreRouter::route
\* ------------------------------------------------------------------------

\* Topology with the edges 0-i, built with addEdge.
star(n) == AddEdges(TopologyNew(n), [i \in 1..(n - 1) |-> <<0, i>>], 1)

\* Topology built with addEdge into the line 0 - 1 - ... - (n-3) - (n-1) - (n-2):
\* the qubits n-3 and n-2 are two steps apart.
bentLine(n) ==
    AddEdges(TopologyNew(n),
             [i \in 1..(n - 1) |-> IF i < n - 2 THEN <<i - 1, i>>
                                   ELSE IF i = n - 2 THEN <<n - 3, n - 1>>
                                   ELSE <<n - 1, n - 2>>], 1)

\* The topologies routed on: the factory ones up to MaxPhys qubits, a star,
\* a bent line, one without edges, and a line wider than a Circuit may be.  Their
\* distance cache is warm, as after any distance() call.
RouteTopologies ==
    {ensureDistanceComputed(t) : t \in
        {linear(n) : n \in 1..MaxPhys} \cup {ring(n) : n \in 3..MaxPhys}
        \cup {grid(2, MaxPhys \div 2), star(MaxPhys), bentLine(MaxPhys),
              TopologyNew(2),
              linear(MAX_QUBITS + 1)}}

\* The gates a caller adds: what the Gate constructor accepts on qubits the
\* circuit has (it does not compare a two-qubit gate's operands).
RouteGates(n) ==
    {Gate(type, <<q>>, << >>) : type \in {"H"}, q \in 0..(n - 1)}
    \cup {Gate(type, <<q>>, <<1>>) : type \in {"Rz"}, q \in 0..(n - 1)}
    \cup {Gate(type, <<q[1], q[2]>>, << >>) :
              type \in {"CNOT"}, q \in (0..(n - 1)) \X (0..(n - 1))}

InitRoute ==
    /\ circuit \in {CircuitNew(n) : n \in 1..MaxQubits}
    /\ topology \in RouteTopologies
    /\ pc = "build"
    /\ err = ""
    /\ NoRoute
    /\ router = DefaultRouter
    /\ NoDag
    /\ last_call = NoCall

\* Circuit::addGate by the caller.
AddGate ==
    /\ pc = "build"
    /\ Len(circuit.gates) < MaxGates
    /\ \E g \in RouteGates(circuit.num_qubits) :
          /\ validate(g.type, g.qubits, g.parameter)
          /\ validateGateQubits(circuit.num_qubits, g)
          /\ circuit' = CircuitAddGate(circuit, g)
    /\ UNCHANGED <<router, topology, pc, err, dag, mapping, reverse_mapping, executed,
                   remaining_deps, front_layer, routed, swaps_inserted, emitted,
                   result, dagVars, callVars>>

\* route: validateRouteInputs throws std::invalid_argument.
RouteIncompatible ==
    /\ pc = "build"
    /\ ~validateRouteInputs(circuit, topology)
    /\ pc' = "error"
    /\ err' = "invalid_argument: circuit has more qubits than topology"
    /\ UNCHANGED <<router, circuit, topology, dag, mapping, reverse_mapping, executed,
                   remaining_deps, front_layer, routed, swaps_inserted, emitted,
                   result, dagVars, callVars>>

\* route on an empty circuit: the early return.
RouteEmpty ==
    /\ pc = "build"
    /\ validateRouteInputs(circuit, topology)
    /\ circuit.gates = << >>
    /\ CircuitCtorOk(circuit.num_qubits)
    /\ result' = RoutingResult(CircuitNew(circuit.num_qubits),
                               identityMapping(circuit.num_qubits),
                               identityMapping(circuit.num_qubits), 0, 0)
    /\ pc' = "done"
    /\ UNCHANGED <<router, circuit, topology, err, dag, mapping, reverse_mapping, executed,
                   remaining_deps, front_layer, routed, swaps_inserted, emitted,
                   dagVars, callVars>>

\* route: DAG::fromCircuit throws (std::out_of_range from nodes_.at).
RouteFromCircuitThrows ==
    /\ pc = "build"
    /\ validateRouteInputs(circuit, topology)
    /\ circuit.gates # << >>
    /\ fromCircuit(circuit).threw
    /\ pc' = "error"
    /\ err' = "out_of_range"
    /\ UNCHANGED <<router, circuit, topology, dag, mapping, reverse_mapping, executed,
                   remaining_deps, front_layer, routed, swaps_inserted, emitted,
                   result, dagVars, callVars>>

\* route: ir::Circuit routed(topology.numQubits()) throws
\* std::invalid_argument.
RouteCircuitCtorThrows ==
    /\ pc = "build"
    /\ validateRouteInputs(circuit, topology)
    /\ circuit.gates # << >>
    /\ ~fromCircuit(circuit).threw
    /\ ~CircuitCtorOk(topology.num_qubits)
    /\ pc' = "error"
    /\ err' = "invalid_argument: circuit exceeds maximum qubit count"
    /\ UNCHANGED <<router, circuit, topology, dag, mapping, reverse_mapping, executed,
                   remaining_deps, front_layer, routed, swaps_inserted, emitted,
                   result, dagVars, callVars>>

\* route up to the first test of the while-loop in routeForward.  The front
\* layer is dag.sources(): the sources in any order.
RouteBegin ==
    /\ pc = "build"
    /\ validateRouteInputs(circuit, topology)
    /\ circuit.gates # << >>
    /\ ~fromCircuit(circuit).threw
    /\ CircuitCtorOk(topology.num_qubits)
    /\ LET m == identityMapping(circuit.num_qubits)
           d == fromCircuit(circuit).dag
       IN  /\ mapping' = m
           /\ reverse_mapping' = computeReverseMapping(m, topology.num_qubits)
           /\ dag' = d
           /\ routed' = CircuitNew(topology.num_qubits)
           /\ swaps_inserted' = 0
           /\ executed' = {}
           /\ remaining_deps' = [id \in DOMAIN d.nodes |-> inDegree(d, id)]
           /\ front_layer' \in Perms(sources(d))
    /\ emitted' = << >>
    /\ pc' = "loop"
    /\ UNCHANGED <<router, circuit, topology, err, result, dagVars, callVars>>

\* What the execute pass of the current loop iteration does.
Round ==
    ExecutePass(dag, topology, mapping, front_layer, 1,
        [routed |-> routed, executed_this_round |-> << >>, blocked |-> << >>,
         emitted |-> emitted])

\* One iteration of the while-loop in which some gate executes.
ExecuteRound ==
    /\ pc = "loop"
    /\ front_layer # << >>
    /\ Round.executed_this_round # << >>
    /\ LET st == MarkExecuted(dag, Round.executed_this_round, 1,
                     [executed |-> executed, remaining_deps |-> remaining_deps,
                      blocked |-> Round.blocked])
       IN  /\ executed' = st.executed
           /\ remaining_deps' = st.remaining_deps
           /\ front_layer' = st.blocked
    /\ routed' = Round.routed
    /\ emitted' = Round.emitted
    /\ UNCHANGED <<router, circuit, topology, pc, err, dag, mapping, reverse_mapping,
                   swaps_inserted, result, dagVars, callVars>>

\* One iteration in which nothing executes and selectBestSwap returns a
\* pair: the SWAP is inserted.  front_layer is left as it was.
SwapRound ==
    /\ pc = "loop"
    /\ front_layer # << >>
    /\ Round.executed_this_round = << >>
    /\ swaps_inserted < MaxSwaps
    /\ \E best_swap \in selectBestSwap(dag, topology, mapping, Round.blocked, executed) :
          /\ best_swap[1] # INVALID_LOGICAL
          /\ LET s == insertSwap(best_swap[1], best_swap[2], mapping,
                                 reverse_mapping, routed)
             IN  /\ routed' = s.routed
                 /\ mapping' = s.mapping
                 /\ reverse_mapping' = s.reverse_mapping
    /\ swaps_inserted' = swaps_inserted + 1
    /\ emitted' = Append(emitted, INVALID_GATE_ID)
    /\ UNCHANGED <<router, circuit, topology, pc, err, dag, executed, remaining_deps,
                   front_layer, result, dagVars, callVars>>

\* One iteration in which nothing executes and selectBestSwap returns the
\* INVALID pair: the fallback asks for the shortest path between the images
\* of blocked[0], which throws std::runtime_error when there is none, and
\* swaps the path's first two qubits when it has two.
FallbackRound ==
    /\ pc = "loop"
    /\ front_layer # << >>
    /\ Round.executed_this_round = << >>
    /\ selectBestSwap(dag, topology, mapping, Round.blocked, executed)
           = {<<INVALID_LOGICAL, INVALID_LOGICAL>>}
    /\ LET gate == dag.nodes[Round.blocked[1]].gate
           path == shortestPath(topology, mapping[gate.qubits[1]], mapping[gate.qubits[2]])
           s == insertSwap(path.path[1], path.path[2], mapping, reverse_mapping, routed)
       IN  IF path.threw
           THEN /\ pc' = "error"
                /\ err' = "runtime_error: no path"
                /\ UNCHANGED <<routed, mapping, reverse_mapping, swaps_inserted, emitted>>
           ELSE IF Len(path.path) >= 2 /\ swaps_inserted < MaxSwaps
           THEN /\ routed' = s.routed
                /\ mapping' = s.mapping
                /\ reverse_mapping' = s.reverse_mapping
                /\ swaps_inserted' = swaps_inserted + 1
                /\ emitted' = Append(emitted, INVALID_GATE_ID)
                /\ UNCHANGED <<pc, err>>
           ELSE UNCHANGED <<pc, err, routed, mapping, reverse_mapping,
                            swaps_inserted, emitted>>
    /\ UNCHANGED <<router, circuit, topology, dag, executed, remaining_deps, front_layer,
                   result, dagVars, callVars>>

\* The while-loop ends: routeForward returns and route builds its result.
RouteReturn ==
    /\ pc = "loop"
    /\ front_layer = << >>
    /\ result' = RoutingResult(routed, identityMapping(circuit.num_qubits), mapping,
                               swaps_inserted, CircuitDepth(circuit))
    /\ pc' = "done"
    /\ UNCHANGED <<router, circuit, topology, err, dag, mapping, reverse_mapping, executed,
                   remaining_deps, front_layer, routed, swaps_inserted, emitted,
                   dagVars, callVars>>

\* route from its call to its first loop test, or to its early end.
RouteCall ==
    \/ RouteIncompatible
    \/ RouteEmpty
    \/ RouteFromCircuitThrows
    \/ RouteCircuitCtorThrows
    \/ RouteBegin

\* One iteration of the while-loop of routeForward, or its exit.
LoopStep ==
    \/ ExecuteRound
    \/ SwapRound
    \/ FallbackRound
    \/ RouteReturn

NextRoute == AddGate \/ RouteCall \/ LoopStep

SpecRoute == InitRoute /\ [][NextRoute]_vars

\* A running loop keeps running: it takes its next iteration.
SpecRouteFair == SpecRoute /\ WF_vars(LoopStep)

\* ------------------------------------------------------------------------
\* Properties of routing
\* ------------------------------------------------------------------------

\* a and b are the two ends of an edge in the topology's edge list.
IsEdge(t, a, b) == <<a, b>> \in Range(t.edges) \/ <<b, a>> \in Range(t.edges)

\* No two-qubit gate of the circuit has twice the same operand.
DistinctOperands(c) ==
    \A i \in 1..Len(c.gates) :
        Len(c.gates[i].qubits) = 2 => c.gates[i].qubits[1] # c.gates[i].qubits[2]

\* The positions of the routed circuit that hold inserted SWAPs.
SwapPositions == {i \in 1..Len(emitted) : emitted[i] = INVALID_GATE_ID}

\* The positions of the routed circuit at which DAG node id was emitted.
EmittedAt(id) == {i \in 1..Len(emitted) : emitted[i] = id}

RECURSIVE MappingBefore(_)
\* The logical -> physical mapping in force when the gate at position i of
\* the routed circuit was appended: the identity, with the two physical
\* qubits of each SWAP inserted before position i exchanged.
MappingBefore(i) ==
    IF i <= 1 THEN [l \in 0..(circuit.num_qubits - 1) |-> l]
    ELSE LET m == MappingBefore(i - 1)
             g == routed.gates[i - 1]
         IN  IF (i - 1) \notin SwapPositions THEN m
             ELSE [l \in DOMAIN m |->
                      IF m[l] = g.qubits[1] THEN g.qubits[2]
                      ELSE IF m[l] = g.qubits[2] THEN g.qubits[1]
                      ELSE m[l]]

\* C1: whenever route has returned, every two-qubit gate of the routed
\* circuit, remapped input gate or inserted SWAP, acts on two distinct
\* physical qubits that an edge of the topology joins.
C1_RoutedTwoQubitGatesOnEdges ==
    pc = "done" =>
        \A i \in 1..Len(result.routed_circuit.gates) :
            LET g == result.routed_circuit.gates[i] IN
            Len(g.qubits) = 2 =>
                /\ g.qubits[1] # g.qubits[2]
                /\ IsEdge(topology, g.qubits[1], g.qubits[2])

\* C1's case: a returned routed circuit holding an inserted SWAP and a
\* remapped two-qubit input gate.
C1_Witness ==
    /\ pc = "done"
    /\ \E i, j \in 1..Len(result.routed_circuit.gates) :
          /\ i \in SwapPositions
          /\ j \notin SwapPositions
          /\ result.routed_circuit.gates[j].type = "CNOT"

C4_EmissionRespectsDagAndMapping ==
    \A i \in 1..Len(routed.gates) :
        i \notin SwapPositions =>
            LET node == dag.nodes[emitted[i]]
                g == routed.gates[i]
                m == MappingBefore(i)
            IN  /\ g.type = node.gate.type
                /\ g.parameter = node.gate.parameter
                /\ g.qubits = [k \in 1..Len(node.gate.qubits) |-> m[node.gate.qubits[k]]]
                /\ \A p \in Range(node.predecessors) :
                       \E j \in 1..(i - 1) : emitted[j] = p

\* C4's case: a gate with a DAG predecessor emitted after a SWAP on
\* physical operands that differ from its logical ones.
C4_Witness ==
    \E i \in 1..Len(routed.gates) :
        /\ i \notin SwapPositions
        /\ dag.nodes[emitted[i]].predecessors # << >>
        /\ routed.gates[i].qubits # dag.nodes[emitted[i]].gate.qubits
        /\ \E j \in 1..(i - 1) : j \in SwapPositions

\* C5: route ends in an error only when the circuit has more qubits than
\* the topology, and then always: with no more qubits than a connected
\* topology has, whatever its size, route raises nothing.  (Stated for
\* circuits whose two-qubit gates have two distinct operands.)
C5_ErrorExactlyWhenTooWide ==
    /\ circuit.num_qubits > topology.num_qubits => pc \in {"build", "error"}
    /\ (pc = "error" /\ isConnected(topology) /\ DistinctOperands(circuit))
           => circuit.num_qubits > topology.num_qubits

\* The (kind, angle) pairs of a gate sequence, position by position.
KindsOf(gates) == [i \in 1..Len(gates) |-> <<gates[i].type, gates[i].parameter>>]

\* Two sequences hold the same elements the same number of times.
SameBag(a, b) ==
    \A x \in Range(a) \cup Range(b) :
        Cardinality({i \in 1..Len(a) : a[i] = x}) = Cardinality({i \in 1..Len(b) : b[i] = x})

\* C6: when route has returned, each input gate was emitted exactly once,
\* with its kind and angle; the routed circuit holds the input's gates plus
\* swaps_inserted SWAPs and nothing else; so with no SWAP it has the input's
\* gate count, kinds and angles.
C6_EachInputGateOnce ==
    pc = "done" =>
        LET out == result.routed_circuit.gates IN
        /\ \A k \in 1..Len(circuit.gates) :
               \E i \in 1..Len(out) :
                   /\ EmittedAt(circuit.gates[k].id) = {i}
                   /\ out[i].type = circuit.gates[k].type
                   /\ out[i].parameter = circuit.gates[k].parameter
        /\ Len(out) = Len(circuit.gates) + result.swaps_inserted
        /\ Cardinality(SwapPositions) = result.swaps_inserted
        /\ result.swaps_inserted = 0 =>
               /\ Len(out) = Len(circuit.gates)
               /\ SameBag(KindsOf(out), KindsOf(circuit.gates))

\* C6's case: a returned call on a circuit of several gates, one of them
\* waiting on both qubits for the same predecessor, that inserted a SWAP.
C6_Witness ==
    /\ pc = "done"
    /\ result.swaps_inserted >= 1
    /\ \E id \in DOMAIN dag.nodes : Len(dag.nodes[id].predecessors) = 2

\* Two arrays are inverse of each other where they are defined.
MutuallyInverse(m, rm) ==
    /\ \A l \in DOMAIN m : rm[m[l]] = l
    /\ \A p \in DOMAIN rm : rm[p] # INVALID_LOGICAL => m[rm[p]] = p

\* C7: all along the routing loop, so after every inserted SWAP, mapping
\* and reverse_mapping are inverse of each other; the final mapping a
\* returned call reports sends the logical qubits to distinct physical
\* qubits of the topology.
C7_MappingsStayInverse ==
    /\ (pc = "loop" \/ (pc = "done" /\ circuit.gates # << >>))
           => MutuallyInverse(mapping, reverse_mapping)
    /\ pc = "done" =>
           /\ DOMAIN result.final_mapping = 0..(circuit.num_qubits - 1)
           /\ \A l \in DOMAIN result.final_mapping :
                  result.final_mapping[l] \in 0..(topology.num_qubits - 1)
           /\ \A l, k \in DOMAIN result.final_mapping :
                  result.final_mapping[l] = result.final_mapping[k] => l = k

\* C7's case: inside the loop, after two SWAPs, on a topology with a
\* physical qubit that holds no logical qubit, some logical qubit moved.
C7_Witness ==
    /\ pc = "loop"
    /\ swaps_inserted >= 2
    /\ \E p \in DOMAIN reverse_mapping : reverse_mapping[p] = INVALID_LOGICAL
    /\ \E l \in DOMAIN mapping : mapping[l] # l

\* C8: whenever route has returned, the routed circuit is as wide as the
\* topology; for an empty input it has no gate and both reported mappings
\* are the identity.
C8_RoutedWidthIsTopologyWidth ==
    pc = "done" =>
        /\ result.routed_circuit.num_qubits = topology.num_qubits
        /\ circuit.gates = << >> =>
               /\ result.routed_circuit.gates = << >>
               /\ result.initial_mapping = [l \in 0..(circuit.num_qubits - 1) |-> l]
               /\ result.final_mapping = [l \in 0..(circuit.num_qubits - 1) |-> l]

\* ------------------------------------------------------------------------
\* CancellationPass (include/passes/CancellationPass.hpp)
\* ------------------------------------------------------------------------

\* CancellationPass::areAdjacentOnSameQubits.
areAdjacentOnSameQubits(d, id1, id2) ==
    IF d.nodes[id1].gate.qubits # d.nodes[id2].gate.qubits THEN FALSE
    ELSE IF ~hasEdge(d, id1, id2) THEN FALSE
    ELSE TRUE

\* CancellationPass::areCancellingPair.
areCancellingPair(g1, g2) ==
    IF isHermitian(g1.type) THEN g1.type = g2.type
    ELSE IF g1.type = "S" THEN g2.type = "Sdg"
    ELSE IF g1.type = "Sdg" THEN g2.type = "S"
    ELSE IF g1.type = "T" THEN g2.type = "Tdg"
    ELSE IF g1.type = "Tdg" THEN g2.type = "T"
    ELSE FALSE

RECURSIVE CheckSuccessors(_, _, _, _, _)
\* The inner loop of CancellationPass::run for the node id: the first
\* successor, neither marked nor gone, that is adjacent on the same qubits
\* and cancels is marked together with id, and the loop breaks.
CheckSuccessors(d, id, succs, i, st) ==
    IF i > Len(succs) THEN st
    ELSE LET succ_id == succs[i] IN
         IF succ_id \in st.to_remove \/ ~hasNode(d, succ_id)
         THEN CheckSuccessors(d, id, succs, i + 1, st)
         ELSE IF areAdjacentOnSameQubits(d, id, succ_id)
                 /\ areCancellingPair(d.nodes[id].gate, d.nodes[succ_id].gate)
         THEN [st EXCEPT !.to_remove = @ \cup {id, succ_id},
                         !.pairs = @ \cup {<<id, succ_id>>},
                         !.gates_removed = @ + 2]
         ELSE CheckSuccessors(d, id, succs, i + 1, st)

RECURSIVE MarkPairs(_, _, _, _)
\* The outer loop of CancellationPass::run over the topological order.
MarkPairs(d, order, i, st) ==
    IF i > Len(order) THEN st
    ELSE IF order[i] \in st.to_remove \/ ~hasNode(d, order[i])
    THEN MarkPairs(d, order, i + 1, st)
    ELSE MarkPairs(d, order, i + 1,
             CheckSuccessors(d, order[i], d.nodes[order[i]].successors, 1, st))

RECURSIVE RemoveMarked(_, _, _, _)
\* The removal loop of CancellationPass::run, over the reversed order; a
\* removeNode that throws ends it.
RemoveMarked(r, rorder, i, to_remove) ==
    IF i > Len(rorder) \/ r.threw THEN r
    ELSE IF rorder[i] \in to_remove /\ hasNode(r.dag, rorder[i])
    THEN RemoveMarked(DagRemoveNode(r.dag, rorder[i]), rorder, i + 1, to_remove)
    ELSE RemoveMarked(r, rorder, i + 1, to_remove)

\* CancellationPass::run on d, its topological order starting from the
\* sources in the order `first`: the DAG after the call, the exception if
\* any, the pairs it marked and its gates_removed statistic.
CancellationRun(d, first) ==
    LET t == topologicalOrder(d, first) IN
    IF t.threw
    THEN [dag |-> d, err |-> "logic_error", pairs |-> {}, gates_removed |-> 0]
    ELSE LET st == MarkPairs(d, t.order, 1,
                       [to_remove |-> {}, pairs |-> {}, gates_removed |-> 0])
             r == RemoveMarked([dag |-> d, threw |-> FALSE], Reverse(t.order), 1,
                               st.to_remove)
         IN  [dag |-> r.dag, err |-> IF r.threw THEN "out_of_range" ELSE "",
              pairs |-> st.pairs, gates_removed |-> st.gates_removed]

\* ------------------------------------------------------------------------
\* A DAG driven through fromCircuit, addGate, removeNode and the pass
\* ------------------------------------------------------------------------

\* The gates a caller hands to the DAG: what the Gate constructor accepts on
\* qubits the DAG has.
DagGates(n) ==
    {Gate(type, <<q>>, << >>) : type \in {"H", "S", "Sdg"}, q \in 0..(n - 1)}
    \cup {Gate(type, <<q[1], q[2]>>, << >>) :
              type \in {"CNOT"}, q \in (0..(n - 1)) \X (0..(n - 1))}

RECURSIVE CircuitOf(_, _)
\* The circuit of n qubits whose gates are gs, added one by one.
CircuitOf(n, gs) ==
    IF gs = << >> THEN CircuitNew(n)
    ELSE CircuitAddGate(CircuitOf(n, SubSeq(gs, 1, Len(gs) - 1)), gs[Len(gs)])

InitDag ==
    /\ circuit = CircuitNew(1)
    /\ topology = TopologyNew(1)
    /\ pc = "build"
    /\ err = ""
    /\ NoRoute
    /\ router = DefaultRouter
    /\ wdag \in {DagNew(n) : n \in 1..DagQubits}
    /\ dag_err = ""
    /\ dag_threw = FALSE
    /\ last_pass = NoPass
    /\ last_call = NoCall

\* DAG::addGate.
DagAdd ==
    /\ wdag.next_gate_id < MaxNodes
    /\ \E g \in DagGates(wdag.num_qubits) :
          /\ validate(g.type, g.qubits, g.parameter)
          /\ LET r == DagAddGate(wdag, g)
             IN  /\ wdag' = r.dag
                 /\ dag_err' = IF r.threw THEN "out_of_range" ELSE ""
                 /\ dag_threw' = (dag_threw \/ r.threw)
    /\ last_pass' = NoPass
    /\ UNCHANGED <<routeVars, callVars>>

\* DAG::removeNode, on a live id or not.
DagRemove ==
    /\ \E id \in 0..(MaxNodes - 1) :
          LET r == DagRemoveNode(wdag, id)
          IN  /\ wdag' = r.dag
              /\ dag_err' = IF r.threw THEN "out_of_range" ELSE ""
              /\ dag_threw' = (dag_threw \/ r.threw)
    /\ last_pass' = NoPass
    /\ UNCHANGED <<routeVars, callVars>>

\* DAG::fromCircuit on a circuit of at most MaxGates gates, where a DAG's
\* life can start: the caller's DAG is the one it returns, or the empty one
\* still when it throws.
DagFromCircuit ==
    /\ wdag.next_gate_id = 0
    /\ ~dag_threw
    /\ \E k \in 0..MaxGates :
          \E gs \in [1..k -> DagGates(wdag.num_qubits)] :
              LET r == fromCircuit(CircuitOf(wdag.num_qubits, gs))
              IN  /\ wdag' = IF r.threw THEN wdag ELSE r.dag
                  /\ dag_err' = IF r.threw THEN "out_of_range" ELSE ""
                  /\ dag_threw' = (dag_threw \/ r.threw)
    /\ last_pass' = NoPass
    /\ UNCHANGED <<routeVars, callVars>>

\* CancellationPass::run.
DagCancel ==
    /\ \E first \in Perms(sources(wdag)) :
          LET r == CancellationRun(wdag, first)
          IN  /\ wdag' = r.dag
              /\ dag_err' = r.err
              /\ dag_threw' = (dag_threw \/ r.err # "")
              /\ last_pass' = [ran |-> r.err = "", before |-> wdag, pairs |-> r.pairs,
                               gates_removed |-> r.gates_removed]
    /\ UNCHANGED <<routeVars, callVars>>

NextDag == DagAdd \/ DagRemove \/ DagFromCircuit \/ DagCancel

SpecDag == InitDag /\ [][NextDag]_vars

\* ------------------------------------------------------------------------
\* Properties of the DAG and of the cancellation pass
\* ------------------------------------------------------------------------

\* The live nodes whose gate touches qubit q.  Ids are handed out in call
\* order and a gate is appended to its wires, so on each wire the gates lie
\* in ascending id order.
Touching(d, q) == {id \in DOMAIN d.nodes : Contains(d.nodes[id].gate.qubits, q)}

RECURSIVE ReachableFrom(_, _, _)
\* The live nodes a directed path of successor links leads to from `frontier`.
ReachableFrom(d, frontier, seen) ==
    IF frontier \subseteq seen THEN seen
    ELSE LET new == frontier \ seen
         IN  ReachableFrom(d,
                 (UNION {Range(d.nodes[id].successors) : id \in new}) \cap DOMAIN d.nodes,
                 seen \cup new)

\* A directed path of at least one edge leads from a to b.
HasPath(d, a, b) ==
    b \in ReachableFrom(d, Range(d.nodes[a].successors) \cap DOMAIN d.nodes, {})

\* The position of id in the sequence order, 0 when it is not there.
PositionIn(order, id) ==
    IF Contains(order, id) THEN CHOOSE i \in 1..Len(order) : order[i] = id ELSE 0

\* C2: on a DAG none of whose calls threw, the pass removes exactly the
\* nodes of the pairs (u, v) it marked, and each marked pair was adjacent in
\* the DAG the pass started from: v a direct successor of u, the same
\* ordered qubit tuple, and no other gate between u and v on any qubit of
\* that tuple.
C2_CancelsOnlyAdjacentPairs ==
    (last_pass.ran /\ ~dag_threw) =>
        LET b == last_pass.before IN
        /\ DOMAIN b.nodes \ DOMAIN wdag.nodes
               = UNION {{pr[1], pr[2]} : pr \in last_pass.pairs}
        /\ \A pr \in last_pass.pairs :
               /\ Contains(b.nodes[pr[1]].successors, pr[2])
               /\ b.nodes[pr[1]].gate.qubits = b.nodes[pr[2]].gate.qubits
               /\ \A q \in Range(b.nodes[pr[1]].gate.qubits) :
                      ~\E w \in Touching(b, q) : pr[1] < w /\ w < pr[2]

\* C9: whatever calls the DAG has seen, topologicalOrder, from any order of
\* the sources, does not throw, lists every node exactly once, and puts u
\* before v for every edge (u, v); so the DAG has no cycle.
C9_TopologicalOrderSucceeds ==
    \A first \in Perms(sources(wdag)) :
        LET t == topologicalOrder(wdag, first) IN
        /\ ~t.threw
        /\ Len(t.order) = Cardinality(DOMAIN wdag.nodes)
        /\ Range(t.order) = DOMAIN wdag.nodes
        /\ \A u \in DOMAIN wdag.nodes :
               \A v \in Range(wdag.nodes[u].successors) :
                   /\ PositionIn(t.order, v) > 0
                   /\ PositionIn(t.order, u) < PositionIn(t.order, v)
        /\ \A u \in DOMAIN wdag.nodes : ~HasPath(wdag, u, u)

\* C10: on a DAG none of whose calls threw, any two nodes touching the same
\* qubit are joined by a directed path from the earlier to the later, by a
\* direct edge when no node touching that qubit lies between them, and
\* every topological order (so toCircuit) keeps the earlier first.
C10_WiresTotallyOrdered ==
    ~dag_threw =>
        \A q \in DOMAIN wdag.last_gate_on_qubit :
            \A a, b \in Touching(wdag, q) :
                a < b =>
                    /\ HasPath(wdag, a, b)
                    /\ (~\E c \in Touching(wdag, q) : a < c /\ c < b) => hasEdge(wdag, a, b)
                    /\ \A first \in Perms(sources(wdag)) :
                           LET t == topologicalOrder(wdag, first) IN
                           PositionIn(t.order, a) < PositionIn(t.order, b)

\* ------------------------------------------------------------------------
\* Circuit -> DAG -> Circuit (DAG::fromCircuit, DAG::toCircuit)
\* ------------------------------------------------------------------------

\* Largest number of gates of a circuit converted to a DAG and back.
MaxConvGates == 3

RECURSIVE EmitInOrder(_, _, _, _)
\* The loop of DAG::toCircuit: a fresh copy of each node's gate, in the
\* order given, is added to the circuit, which numbers it anew.
EmitInOrder(d, order, i, c) ==
    IF i > Len(order) THEN c
    ELSE LET g == d.nodes[order[i]].gate
         IN  EmitInOrder(d, order, i + 1,
                         CircuitAddGate(c, Gate(g.type, g.qubits, g.parameter)))

\* DAG::toCircuit, its topological order starting from the sources in the
\* order `first`.
toCircuit(d, first) ==
    LET t == topologicalOrder(d, first) IN
    IF t.threw THEN [threw |-> TRUE, circuit |-> CircuitNew(d.num_qubits)]
    ELSE [threw |-> FALSE,
          circuit |-> EmitInOrder(d, t.order, 1, CircuitNew(d.num_qubits))]

InitConv ==
    /\ circuit \in {CircuitNew(n) : n \in 1..MaxQubits}
    /\ topology = TopologyNew(1)
    /\ pc = "build"
    /\ err = ""
    /\ NoRoute
    /\ router = DefaultRouter
    /\ NoDag
    /\ last_call = NoCall

\* Circuit::addGate by the caller, with any gate the Gate constructor and
\* the circuit accept.
ConvAddGate ==
    /\ Len(circuit.gates) < MaxConvGates
    /\ \E g \in RouteGates(circuit.num_qubits) :
          /\ validate(g.type, g.qubits, g.parameter)
          /\ validateGateQubits(circuit.num_qubits, g)
          /\ circuit' = CircuitAddGate(circuit, g)
    /\ UNCHANGED <<router, topology, pc, err, dag, mapping, reverse_mapping, executed,
                   remaining_deps, front_layer, routed, swaps_inserted, emitted,
                   result, dagVars, callVars>>

\* DAG::fromCircuit(circuit).toCircuit(): an exception of either call ends
\* the expression.
RoundTrip ==
    /\ LET r == fromCircuit(circuit) IN
       IF r.threw
       THEN last_call' = [op |-> "roundTrip", circuit |-> circuit, threw |-> TRUE,
                          out |-> CircuitNew(circuit.num_qubits)]
       ELSE \E first \in Perms(sources(r.dag)) :
               LET c == toCircuit(r.dag, first)
               IN  last_call' = [op |-> "roundTrip", circuit |-> circuit,
                                 threw |-> c.threw, out |-> c.circuit]
    /\ UNCHANGED <<routeVars, dagVars>>

NextConv == ConvAddGate \/ RoundTrip

SpecConv == InitConv /\ [][NextConv]_vars

\* The (kind, operand tuple, angle) triples of a gate sequence.
TriplesOf(gates) ==
    [i \in 1..Len(gates) |-> <<gates[i].type, gates[i].qubits, gates[i].parameter>>]

\* The gates of a sequence that touch qubit q, in the sequence's order.
WireOf(gates, q) ==
    LET touches(g) == Contains(g.qubits, q) IN TriplesOf(SelectSeq(gates, touches))

\* What a round trip keeps of the circuit it was given.
RoundTripPreserved ==
    LET c == last_call.circuit
        out == last_call.out
    IN  /\ ~last_call.threw
        /\ out.num_qubits = c.num_qubits
        /\ Len(out.gates) = Len(c.gates)
        /\ SameBag(TriplesOf(out.gates), TriplesOf(c.gates))
        /\ \A q \in 0..(c.num_qubits - 1) :
               WireOf(out.gates, q) = WireOf(c.gates, q)
        /\ CircuitDepth(out) = CircuitDepth(c)

\* C11: a circuit converted to a DAG and back comes back without an
\* exception, with its qubit count, its gate count, the same (kind, operand
\* tuple, angle) triples the same number of times, on every qubit the same
\* gates in the same order, and its depth.
C11_RoundTripPreservesCircuit ==
    last_call.op = "roundTrip" => RoundTripPreserved

\* The same for the circuits whose two-qubit gates have distinct operands.
RoundTripOfDistinctOperands ==
    (last_call.op = "roundTrip" /\ DistinctOperands(last_call.circuit))
        => RoundTripPreserved

\* ------------------------------------------------------------------------
\* RotationMergePass, IdentityEliminationPass, CommutationPass
\* (include/passes/*.hpp).  Angles are whole multiples of pi/2.
\* ------------------------------------------------------------------------

\* constants::PI and 2 * PI in units of pi/2.
PI == 2
TWO_PI == 4
\* constants::TOLERANCE (1e-10): under one unit, over zero.
TOLERANCE == 1

\* std::fmod(a, m) for m > 0: the result has the sign of a.
Fmod(a, m) == IF a >= 0 THEN a % m ELSE 0 - ((0 - a) % m)

\* A faulty normalizeAngle that brings back only the angles over pi.
normalizeAngleUpperOnly(angle) ==
    LET a == Fmod(angle, TWO_PI)
    IN  IF a > PI THEN a - TWO_PI ELSE a

\* RotationMergePass::normalizeAngle.
normalizeAngle(angle) ==
    LET a == Fmod(angle, TWO_PI)
    IN  IF a > PI THEN a - TWO_PI ELSE IF a < 0 - PI THEN a + TWO_PI ELSE a

\* RotationMergePass::isRotationGate.
isRotationGate(type) == type \in {"Rx", "Ry", "Rz"}

\* RotationMergePass::canMerge.
canMerge(d, id1, id2) ==
    LET g1 == d.nodes[id1].gate
        g2 == d.nodes[id2].gate
    IN  IF g1.type # g2.type THEN FALSE
        ELSE IF ~isRotationGate(g1.type) THEN FALSE
        ELSE IF g1.qubits # g2.qubits THEN FALSE
        ELSE IF ~hasEdge(d, id1, id2) THEN FALSE
        ELSE TRUE

RECURSIVE MergeIntoFirst(_, _, _, _)
\* The inner loop of RotationMergePass::run for the rotation node id: the
\* first successor, neither marked nor gone, that can merge gives its angle
\* to id, whose gate is replaced by a fresh Gate (id INVALID_GATE_ID), and
\* is marked; the loop breaks.
MergeIntoFirst(st, id, succs, i) ==
    IF i > Len(succs) THEN st
    ELSE LET succ_id == succs[i] IN
         IF succ_id \in st.to_remove \/ ~hasNode(st.dag, succ_id)
         THEN MergeIntoFirst(st, id, succs, i + 1)
         ELSE IF canMerge(st.dag, id, succ_id)
         THEN LET gate == st.dag.nodes[id].gate
                  new_angle == normalizeAngle(gate.parameter[1]
                                   + st.dag.nodes[succ_id].gate.parameter[1])
              IN  [st EXCEPT !.dag.nodes[id].gate =
                                 Gate(gate.type, gate.qubits, <<new_angle>>),
                             !.to_remove = @ \cup {succ_id},
                             !.gates_removed = @ + 1,
                             !.changed = TRUE]
         ELSE MergeIntoFirst(st, id, succs, i + 1)

RECURSIVE MergeSweep(_, _, _)
\* The for-loop of RotationMergePass::run over one topological order.
MergeSweep(st, order, i) ==
    IF i > Len(order) THEN st
    ELSE LET id == order[i] IN
         IF id \in st.to_remove \/ ~hasNode(st.dag, id)
         THEN MergeSweep(st, order, i + 1)
         ELSE IF ~isRotationGate(st.dag.nodes[id].gate.type)
         THEN MergeSweep(st, order, i + 1)
         ELSE MergeSweep(MergeIntoFirst(st, id, st.dag.nodes[id].successors, 1),
                         order, i + 1)

RECURSIVE RemoveEach(_, _, _)
\* for (id : ids) if (dag.hasNode(id)) dag.removeNode(id); a removeNode that
\* throws ends the loop.  removed counts the calls that returned.
RemoveEach(r, ids, i) ==
    IF i > Len(ids) \/ r.threw THEN r
    ELSE IF hasNode(r.dag, ids[i])
    THEN LET x == DagRemoveNode(r.dag, ids[i])
         IN  RemoveEach([dag |-> x.dag, threw |-> x.threw,
                         removed |-> IF x.threw THEN r.removed ELSE r.removed + 1],
                        ids, i + 1)
    ELSE RemoveEach(r, ids, i + 1)

\* A faulty run that sweeps the DAG once and does not look again.
MergeOnce(d, n) ==
    UNION {
        LET t == topologicalOrder(d, first)
            st == MergeSweep([dag |-> d, to_remove |-> {}, gates_removed |-> n,
                              changed |-> FALSE], t.order, 1)
        IN  {[dag |-> RemoveEach([dag |-> st.dag, threw |-> FALSE, removed |-> 0],
                                 ids, 1).dag,
              err |-> "", gates_removed |-> st.gates_removed]
             : ids \in Perms(st.to_remove)}
        : first \in Perms(sources(d))}

RECURSIVE MergeLoop(_, _)
\* The while (changed) loop of RotationMergePass::run from the DAG d with
\* gates_removed_ = n: every result it can end with, over the iteration
\* orders of nodes_ (topologicalOrder) and of the set to_remove.
MergeLoop(d, n) ==
    UNION {
        LET t == topologicalOrder(d, first) IN
        IF t.threw THEN {[dag |-> d, err |-> "logic_error", gates_removed |-> n]}
        ELSE LET st == MergeSweep([dag |-> d, to_remove |-> {}, gates_removed |-> n,
                                   changed |-> FALSE], t.order, 1)
             IN  IF ~st.changed
                 THEN {[dag |-> st.dag, err |-> "", gates_removed |-> st.gates_removed]}
                 ELSE UNION {
                          LET r == RemoveEach([dag |-> st.dag, threw |-> FALSE,
                                               removed |-> 0], ids, 1)
                          IN  IF r.threw
                              THEN {[dag |-> r.dag, err |-> "out_of_range",
                                     gates_removed |-> st.gates_removed]}
                              ELSE MergeLoop(r.dag, st.gates_removed)
                          : ids \in Perms(st.to_remove)}
        : first \in Perms(sources(d))}

\* RotationMergePass::run: the results it can end with.
RotationMergeRun(d) == MergeLoop(d, 0)

\* A faulty test that takes only the angle 0 itself for zero.
isExactlyZero(angle) == angle = 0

\* IdentityEliminationPass::isEffectivelyZero; reduced is a whole number of
\* units, so it is under the tolerance exactly when it is 0.
isEffectivelyZero(angle) ==
    LET reduced == Fmod(IF angle < 0 THEN 0 - angle ELSE angle, TWO_PI)
    IN  reduced < TOLERANCE \/ (TWO_PI - reduced) < TOLERANCE

\* IdentityEliminationPass::isIdentityGate.
isIdentityGate(gate) ==
    IF ~isParameterized(gate.type) THEN FALSE
    ELSE isEffectivelyZero(IF gate.parameter = << >> THEN 0 ELSE gate.parameter[1])

\* IdentityEliminationPass::run: the results it can end with.
IdentityEliminationRun(d) ==
    {LET t == topologicalOrder(d, first) IN
     IF t.threw THEN [dag |-> d, err |-> "logic_error", gates_removed |-> 0]
     ELSE LET isId(id) == isIdentityGate(d.nodes[id].gate)
              r == RemoveEach([dag |-> d, threw |-> FALSE, removed |-> 0],
                              SelectSeq(t.order, isId), 1)
          IN  [dag |-> r.dag, err |-> IF r.threw THEN "out_of_range" ELSE "",
               gates_removed |-> r.removed]
     : first \in Perms(sources(d))}

\* CommutationPass::isDiagonal.
isDiagonal(type) == type \in {"Z", "S", "Sdg", "T", "Tdg", "Rz", "CZ"}

\* CommutationPass::isZLike.
isZLike(type) == type \in {"Z", "S", "Sdg", "T", "Tdg", "Rz"}

\* CommutationPass::qubitsOverlap.
qubitsOverlap(g1, g2) == Range(g1.qubits) \cap Range(g2.qubits) # {}

\* CommutationPass::commute.
commute(g1, g2) ==
    IF ~qubitsOverlap(g1, g2) THEN TRUE
    ELSE IF g1.type = g2.type /\ g1.qubits = g2.qubits THEN TRUE
    ELSE IF isDiagonal(g1.type) /\ isDiagonal(g2.type) THEN TRUE
    ELSE IF isZLike(g1.type) /\ g2.type = "CNOT" /\ g1.qubits[1] = g2.qubits[1] THEN TRUE
    ELSE IF isZLike(g2.type) /\ g1.type = "CNOT" /\ g2.qubits[1] = g1.qubits[1] THEN TRUE
    ELSE IF g1.type = "X" /\ g2.type = "CNOT" /\ g1.qubits[1] = g2.qubits[2] THEN TRUE
    ELSE IF g2.type = "X" /\ g1.type = "CNOT" /\ g2.qubits[1] = g1.qubits[2] THEN TRUE
    ELSE FALSE

\* CommutationPass::couldCancel.
couldCancel(g1, g2) ==
    IF g1.qubits # g2.qubits THEN FALSE
    ELSE IF isHermitian(g1.type) /\ g1.type = g2.type THEN TRUE
    ELSE <<g1.type, g2.type>> \in {<<"S", "Sdg">>, <<"Sdg", "S">>,
                                   <<"T", "Tdg">>, <<"Tdg", "T">>}

\* CommutationPass::couldMerge.
couldMerge(g1, g2) ==
    IF g1.qubits # g2.qubits THEN FALSE
    ELSE g1.type = g2.type /\ isParameterized(g1.type)

\* CommutationPass::shouldSwap.
shouldSwap(d, id1, id2) ==
    LET g1 == d.nodes[id1].gate
        g2 == d.nodes[id2].gate
    IN  IF ~commute(g1, g2) THEN FALSE
        ELSE \E pred_of_g1 \in Range(d.nodes[id1].predecessors) :
                 /\ hasNode(d, pred_of_g1)
                 /\ \/ couldCancel(d.nodes[pred_of_g1].gate, g2)
                    \/ couldMerge(d.nodes[pred_of_g1].gate, g2)

\* A faulty swapNodes that reports a swap of two gates sharing a qubit.
swapNodesOverlapping(d, id1, id2) ==
    IF qubitsOverlap(d.nodes[id1].gate, d.nodes[id2].gate) THEN TRUE ELSE FALSE

\* CommutationPass::swapNodes: it rewires nothing and returns false on both
\* of its paths.
swapNodes(d, id1, id2) ==
    IF qubitsOverlap(d.nodes[id1].gate, d.nodes[id2].gate) THEN FALSE ELSE FALSE

\* CommutationPass::run: the results it can end with.  `changed` is set only
\* when swapNodes returns true, so the while-loop runs its body once and the
\* DAG is the one it was given.
CommutationRun(d) ==
    {LET t == topologicalOrder(d, first) IN
     IF t.threw THEN [dag |-> d, err |-> "logic_error", gates_removed |-> 0]
     ELSE LET changed == \E id \in Range(t.order) :
                             \E pred_id \in Range(d.nodes[id].predecessors) :
                                 /\ hasNode(d, pred_id)
                                 /\ shouldSwap(d, pred_id, id)
                                 /\ swapNodes(d, pred_id, id)
          IN  [dag |-> d, err |-> IF changed THEN "diverges" ELSE "",
               gates_removed |-> 0]
     : first \in Perms(sources(d))}

\* ------------------------------------------------------------------------
\* PassManager (include/passes/PassManager.hpp)
\* ------------------------------------------------------------------------

\* The names of the built-in passes, as Pass::name returns them.
PassNames ==
    {"CancellationPass", "CommutationPass", "RotationMergePass",
     "IdentityEliminationPass"}

\* pass->run(dag) for the pass of that name: the results it can end with,
\* each with the pass's gatesRemoved() and gatesAdded().
RunPass(name, d) ==
    LET rs == CASE name = "CancellationPass" ->
                       {[dag |-> r.dag, err |-> r.err, gates_removed |-> r.gates_removed]
                        : r \in {CancellationRun(d, first) : first \in Perms(sources(d))}}
                [] name = "CommutationPass" -> CommutationRun(d)
                [] name = "RotationMergePass" -> RotationMergeRun(d)
                [] OTHER -> IdentityEliminationRun(d)
    IN  {[dag |-> r.dag, err |-> r.err, gates_removed |-> r.gates_removed,
          gates_added |-> 0] : r \in rs}

\* PassStatistics{}.
NoStatistics ==
    [total_gates_removed |-> 0, total_gates_added |-> 0, initial_gate_count |-> 0,
     final_gate_count |-> 0, per_pass |-> << >>]

\* A faulty reset that keeps what the last run left in statistics_.
KeepStatistics(statistics) == statistics

\* statistics_ = PassStatistics{} at the start of PassManager::run.
ResetStatistics(statistics) == NoStatistics

\* DAG::numNodes.
numNodes(d) == Cardinality(DOMAIN d.nodes)

RECURSIVE RunPasses(_, _, _)
\* The for-loop of PassManager::run over passes_[i..] from each of the
\* states in sts: the states it can end in.  A pass that throws ends the
\* run with statistics_ as it was.  history keeps, for each pass that
\* returned, the DAG it was given and the DAG it left.
RunPasses(sts, passes, i) ==
    IF i > Len(passes) THEN sts
    ELSE RunPasses(
             UNION {IF st.err # "" THEN {st}
                    ELSE {IF r.err # ""
                          THEN [st EXCEPT !.dag = r.dag, !.err = r.err]
                          ELSE [st EXCEPT
                                   !.dag = r.dag,
                                   !.statistics.total_gates_removed = @ + r.gates_removed,
                                   !.statistics.total_gates_added = @ + r.gates_added,
                                   !.statistics.per_pass =
                                       Append(@, <<passes[i], r.gates_removed, r.gates_added>>),
                                   !.history = Append(@, [name |-> passes[i],
                                                          before |-> st.dag,
                                                          after |-> r.dag])]
                          : r \in RunPass(passes[i], st.dag)}
                    : st \in sts},
             passes, i + 1)

\* PassManager::run(DAG&) with the passes registered in that order, from a
\* manager whose statistics_ is `statistics`.
ManagerRun(passes, statistics, d) ==
    LET s0 == [ResetStatistics(statistics) EXCEPT !.initial_gate_count = numNodes(d)]
    IN  {IF st.err # "" THEN st
         ELSE [st EXCEPT !.statistics.final_gate_count = numNodes(st.dag)]
         : st \in RunPasses({[dag |-> d, err |-> "", statistics |-> s0,
                              history |-> << >>]}, passes, 1)}

\* ------------------------------------------------------------------------
\* A DAG built by its caller and optimised through a PassManager
\* ------------------------------------------------------------------------

\* How many gate ids a DAG handed to the passes may have given out.
MaxPassNodes == 4
\* Largest number of passes registered in a PassManager.
MaxPasses == 2

\* The angles of the rotations a caller adds: 0, pi/2 and 2 pi.
PassAngles == {0, 1, TWO_PI}

\* The gates a caller adds to the DAG, as the factories Gate::z, Gate::cnot,
\* Gate::rz and Gate::rx build them: on qubit 0 a Z, an Rx and an Rz by each
\* angle, on every other qubit q an Rz and the CNOTs between qubit 0 and q.
PassGates(n) ==
    {Gate("Z", <<0>>, << >>), Gate("Rx", <<0>>, <<1>>)}
    \cup {Gate("Rz", <<0>>, <<a>>) : a \in PassAngles}
    \cup {Gate("Rz", <<q>>, <<1>>) : q \in 1..(n - 1)}
    \cup {Gate("CNOT", <<0, q>>, << >>) : q \in 1..(n - 1)}
    \cup {Gate("CNOT", <<q, 0>>, << >>) : q \in 1..(n - 1)}

\* The pass sequences a caller registers with addPass.
PassSeqs == UNION {[1..k -> PassNames] : k \in 0..MaxPasses}

InitPass ==
    /\ circuit = CircuitNew(1)
    /\ topology = TopologyNew(1)
    /\ pc = "build"
    /\ err = ""
    /\ NoRoute
    /\ router = DefaultRouter
    /\ wdag \in {DagNew(n) : n \in 1..DagQubits}
    /\ dag_err = ""
    /\ dag_threw = FALSE
    /\ last_pass = NoPass
    /\ last_call = NoCall

\* DAG::addGate by the caller.
PassAddGate ==
    /\ wdag.next_gate_id < MaxPassNodes
    /\ \E g \in PassGates(wdag.num_qubits) :
          LET r == DagAddGate(wdag, g)
          IN  /\ wdag' = r.dag
              /\ dag_err' = IF r.threw THEN "out_of_range" ELSE ""
              /\ dag_threw' = (dag_threw \/ r.threw)
    /\ last_call' = NoCall
    /\ UNCHANGED <<routeVars, last_pass>>

\* DAG::removeNode by the caller, on a node the DAG has.
PassRemoveNode ==
    /\ \E id \in DOMAIN wdag.nodes :
          LET r == DagRemoveNode(wdag, id)
          IN  /\ wdag' = r.dag
              /\ dag_err' = IF r.threw THEN "out_of_range" ELSE ""
              /\ dag_threw' = (dag_threw \/ r.threw)
    /\ last_call' = NoCall
    /\ UNCHANGED <<routeVars, last_pass>>

\* PassManager::run(dag): by a manager just set up with addPass, or again by
\* the manager whose run was the last call, with the passes_ and the
\* statistics_ it holds.
PassManagerRun ==
    /\ \E passes \in IF last_call.op = "PassManager::run"
                     THEN {last_call.passes} ELSE PassSeqs :
          \E st \in ManagerRun(passes,
                               IF last_call.op = "PassManager::run"
                               THEN last_call.statistics ELSE NoStatistics,
                               wdag) :
              /\ wdag' = st.dag
              /\ dag_err' = st.err
              /\ dag_threw' = (dag_threw \/ st.err # "")
              /\ last_call' = [op |-> "PassManager::run", passes |-> passes,
                               before |-> wdag, err |-> st.err,
                               statistics |-> st.statistics,
                               history |-> st.history]
    /\ UNCHANGED <<routeVars, last_pass>>

NextPass == PassAddGate \/ PassRemoveNode \/ PassManagerRun

SpecPass == InitPass /\ [][NextPass]_vars

\* No pass throws on a DAG its caller built.
PassesDoNotThrow == ~dag_threw

\* ------------------------------------------------------------------------
\* Properties of the passes and of the PassManager
\* ------------------------------------------------------------------------

\* A PassManager::run was the last call, on a DAG none of whose calls threw.
ManagerRan == last_call.op = "PassManager::run" /\ last_call.err # "logic_error"
                  /\ last_call.err # "out_of_range" /\ last_call.err # "diverges"

\* The positions in the last run's pass list of the passes of that name
\* that returned.
RunsOf(name) ==
    IF last_call.op # "PassManager::run" THEN {}
    ELSE {i \in 1..Len(last_call.history) : last_call.history[i].name = name}

\* The last run did not stop in a pass of that name.
NotStoppedIn(name) ==
    (last_call.op = "PassManager::run" /\ last_call.err # "")
        => last_call.passes[Len(last_call.history) + 1] # name

\* An angle that is 0 modulo 2 pi.
ZeroMod2Pi(angle) == angle % TWO_PI = 0

\* C12: RotationMergePass::run returns on every DAG (no exception, no
\* endless loop); in the DAG it leaves no rotation has a direct successor
\* of the same kind on the same qubit; its gates_removed is the number of
\* nodes that are gone; every node that is gone was a rotation with a
\* rotation of its kind on its qubit left behind, and every gate that is
\* not a rotation is as it was.
C12_RotationMergeLeavesNoMergeablePair ==
    /\ NotStoppedIn("RotationMergePass")
    /\ \A i \in RunsOf("RotationMergePass") :
          LET b == last_call.history[i].before
              a == last_call.history[i].after
          IN  /\ \A u \in DOMAIN a.nodes :
                     isRotationGate(a.nodes[u].gate.type) =>
                         \A v \in Range(a.nodes[u].successors) :
                             ~(/\ v \in DOMAIN a.nodes
                               /\ a.nodes[v].gate.type = a.nodes[u].gate.type
                               /\ a.nodes[v].gate.qubits = a.nodes[u].gate.qubits)
              /\ DOMAIN a.nodes \subseteq DOMAIN b.nodes
              /\ last_call.statistics.per_pass[i][2]
                     = Cardinality(DOMAIN b.nodes \ DOMAIN a.nodes)
              /\ \A id \in DOMAIN b.nodes \ DOMAIN a.nodes :
                     /\ isRotationGate(b.nodes[id].gate.type)
                     /\ \E u \in DOMAIN a.nodes :
                            /\ a.nodes[u].gate.type = b.nodes[id].gate.type
                            /\ a.nodes[u].gate.qubits = b.nodes[id].gate.qubits
              /\ \A id \in DOMAIN a.nodes :
                     ~isRotationGate(b.nodes[id].gate.type) =>
                         a.nodes[id].gate = b.nodes[id].gate

\* C12's case: a run of RotationMergePass that merged two rotations away,
\* one after the other, into a third.
C12_Witness ==
    \E i \in RunsOf("RotationMergePass") :
        /\ last_call.statistics.per_pass[i][2] >= 2
        /\ numNodes(last_call.history[i].after) >= 1

\* C13: IdentityEliminationPass::run removes exactly the Rx/Ry/Rz nodes
\* whose angle is 0 modulo 2 pi and leaves every other gate as it was; run
\* a second time in a row it removes nothing.
C13_IdentityEliminationRemovesZeroRotations ==
    /\ NotStoppedIn("IdentityEliminationPass")
    /\ \A i \in RunsOf("IdentityEliminationPass") :
          LET b == last_call.history[i].before
              a == last_call.history[i].after
          IN  /\ DOMAIN a.nodes = {id \in DOMAIN b.nodes :
                                ~(/\ b.nodes[id].gate.type \in {"Rx", "Ry", "Rz"}
                                  /\ ZeroMod2Pi(b.nodes[id].gate.parameter[1]))}
              /\ \A id \in DOMAIN a.nodes : a.nodes[id].gate = b.nodes[id].gate
              /\ (i > 1 /\ last_call.history[i - 1].name = "IdentityEliminationPass")
                     => /\ last_call.statistics.per_pass[i][2] = 0
                        /\ a = b

\* C13's case: the pass run twice in a row on a DAG holding a rotation by 0
\* or 2 pi, a rotation by another angle and a gate that is no rotation.
C13_Witness ==
    /\ ManagerRan
    /\ last_call.passes = <<"IdentityEliminationPass", "IdentityEliminationPass">>
    /\ Len(last_call.history) = 2
    /\ last_call.statistics.per_pass[1][2] >= 1
    /\ \E id \in DOMAIN wdag.nodes : wdag.nodes[id].gate.type \in {"Rx", "Rz"}
    /\ \E id \in DOMAIN wdag.nodes : wdag.nodes[id].gate.type \in {"Z", "CNOT"}

\* C14: CancellationPass::run a second time in a row removes no gate and
\* leaves the DAG as the first run left it.
C14_CancellationIsIdempotent ==
    \A i \in RunsOf("CancellationPass") :
        (i > 1 /\ last_call.history[i - 1].name = "CancellationPass")
            => /\ last_call.statistics.per_pass[i][2] = 0
               /\ last_call.history[i].after = last_call.history[i].before

\* The DAG of the circuit Z q0; CX q0,q1; Z q0.
ZCxZ ==
    fromCircuit(CircuitOf(2, <<Gate("Z", <<0>>, << >>), Gate("CNOT", <<0, 1>>, << >>),
                               Gate("Z", <<0>>, << >>)>>)).dag

\* C15: CommutationPass followed by CancellationPass on Z q0; CX q0,q1; Z q0
\* leaves one gate, the CX.
C15_CommuteThenCancelLeavesCx ==
    (/\ last_call.op = "PassManager::run"
     /\ last_call.passes = <<"CommutationPass", "CancellationPass">>
     /\ last_call.before = ZCxZ)
        => /\ last_call.err = ""
           /\ numNodes(wdag) = 1
           /\ \A id \in DOMAIN wdag.nodes : wdag.nodes[id].gate.type = "CNOT"

RECURSIVE SumOf(_, _, _)
\* The sum of the k-th components of the entries i.. of a sequence of tuples.
SumOf(s, k, i) == IF i > Len(s) THEN 0 ELSE s[i][k] + SumOf(s, k, i + 1)

\* C16: when PassManager::run returns, per_pass has one entry per
\* registered pass, in registration order, each with the number of nodes
\* that pass removed and added; the totals are the sums of the entries of
\* this run alone; and final_gate_count = initial_gate_count
\* - total_gates_removed + total_gates_added, the two counts being the DAG's
\* node counts before and after.
C16_StatisticsMatchWhatPassesDid ==
    (last_call.op = "PassManager::run" /\ last_call.err = "") =>
        LET st == last_call.statistics
            h == last_call.history
        IN  /\ Len(st.per_pass) = Len(last_call.passes)
            /\ Len(h) = Len(last_call.passes)
            /\ \A i \in 1..Len(st.per_pass) :
                   /\ st.per_pass[i][1] = last_call.passes[i]
                   /\ st.per_pass[i][2]
                          = Cardinality(DOMAIN h[i].before.nodes \ DOMAIN h[i].after.nodes)
                   /\ st.per_pass[i][3]
                          = Cardinality(DOMAIN h[i].after.nodes \ DOMAIN h[i].before.nodes)
            /\ st.total_gates_removed = SumOf(st.per_pass, 2, 1)
            /\ st.total_gates_added = SumOf(st.per_pass, 3, 1)
            /\ st.initial_gate_count = numNodes(last_call.before)
            /\ st.final_gate_count = numNodes(wdag)
            /\ st.final_gate_count
                   = st.initial_gate_count - st.total_gates_removed + st.total_gates_added

\* C16's case: a manager run of two different passes that each removed a gate.
C16_Witness ==
    /\ last_call.op = "PassManager::run"
    /\ last_call.err = ""
    /\ Len(last_call.passes) = 2
    /\ last_call.statistics.per_pass[1][2] >= 1
    /\ last_call.statistics.per_pass[2][2] >= 1
    /\ last_call.statistics.per_pass[1][1] # last_call.statistics.per_pass[2][1]

\* ------------------------------------------------------------------------
\* Gate construction (include/ir/Gate.hpp)
\* ------------------------------------------------------------------------

\* The longest operand list a caller hands to the constructor.
MaxOperands == 3

\* The operand lists a caller can write: any length up to MaxOperands, any
\* qubit indices, repeated or not.
OperandLists ==
    UNION {[1..n -> 0..(MaxQubits - 1)] : n \in 0..MaxOperands}

\* The std::optional<Angle> arguments: none, or an angle.
OptionalAngles == {<< >>} \cup {<<a>> : a \in PassAngles}

\* Gate::Gate(type, qubits, parameter): the members are initialised from the
\* arguments and validate() decides whether the constructor throws
\* std::invalid_argument.
GateCtor(type, qubits, parameter) ==
    [threw |-> ~validate(type, qubits, parameter),
     gate |-> Gate(type, qubits, parameter)]

\* The named factories: Gate::h .. Gate::tdg(qubit), Gate::rx/ry/rz(qubit,
\* angle), Gate::cnot/cz/swap(q1, q2).  The two-qubit factories compare their
\* operands before they call the constructor.
GateFactory(type, q1, q2, angle) ==
    IF type \in TwoQubitTypes
    THEN IF q1 = q2
         THEN [threw |-> TRUE, gate |-> Gate(type, <<q1, q2>>, << >>)]
         ELSE GateCtor(type, <<q1, q2>>, << >>)
    ELSE IF isParameterized(type)
    THEN GateCtor(type, <<q1>>, <<angle>>)
    ELSE GateCtor(type, <<q1>>, << >>)

InitGate ==
    /\ circuit = CircuitNew(1)
    /\ topology = TopologyNew(1)
    /\ pc = "build"
    /\ err = ""
    /\ NoRoute
    /\ router = DefaultRouter
    /\ NoDag
    /\ last_call = NoCall

\* A caller constructs a Gate with the general constructor.  One behaviour
\* observes one construction: a construction depends on nothing but its
\* arguments.
GateConstruct ==
    /\ last_call = NoCall
    /\ \E type \in GateTypes, qubits \in OperandLists, parameter \in OptionalAngles :
          LET r == GateCtor(type, qubits, parameter)
          IN  last_call' = [op |-> "Gate::Gate", type |-> type, qubits |-> qubits,
                            parameter |-> parameter, threw |-> r.threw,
                            gate |-> r.gate]
    /\ UNCHANGED <<routeVars, dagVars>>

\* A caller constructs a Gate with a named factory.
GateFromFactory ==
    /\ last_call = NoCall
    /\ \E type \in GateTypes, q1 \in 0..(MaxQubits - 1), q2 \in 0..(MaxQubits - 1),
          angle \in PassAngles :
          LET r == GateFactory(type, q1, q2, angle)
          IN  last_call' = [op |-> "Gate::factory", type |-> type,
                            qubits |-> r.gate.qubits,
                            parameter |-> r.gate.parameter, threw |-> r.threw,
                            gate |-> r.gate]
    /\ UNCHANGED <<routeVars, dagVars>>

NextGate == GateConstruct \/ GateFromFactory

SpecGate == InitGate /\ [][NextGate]_vars

\* The four invariants of a Gate value: arity, an angle on Rx/Ry/Rz, no
\* angle on the other kinds, distinct operands on a two-qubit gate.
GateInvariants(gate) ==
    /\ Len(gate.qubits) = numQubitsFor(gate.type)
    /\ (isParameterized(gate.type) => gate.parameter # << >>)
    /\ (~isParameterized(gate.type) => gate.parameter = << >>)
    /\ (Len(gate.qubits) = 2 => gate.qubits[1] # gate.qubits[2])

\* C17: every construction of a Gate, by the general constructor or by a
\* named factory, that does not fail yields a gate with the right operand
\* count, with an angle exactly when its kind is Rx, Ry or Rz, and with
\* distinct operands when it has two.
C17_EveryGateSatisfiesInvariants ==
    (last_call.op \in {"Gate::Gate", "Gate::factory"} /\ ~last_call.threw)
        => GateInvariants(last_call.gate)

\* The part of C17 the code keeps: a gate that a named factory returned
\* satisfies the four invariants, and the general constructor rejects a wrong
\* operand count and a missing angle.
FactoryGatesSatisfyInvariants ==
    /\ (last_call.op = "Gate::factory" /\ ~last_call.threw)
           => GateInvariants(last_call.gate)
    /\ (last_call.op = "Gate::Gate" /\ ~last_call.threw)
           => /\ Len(last_call.gate.qubits) = numQubitsFor(last_call.gate.type)
              /\ (isParameterized(last_call.gate.type)
                     => last_call.gate.parameter # << >>)

\* ------------------------------------------------------------------------
\* Circuit::addGate and DAG::addGate with operands in and out of range
\* ------------------------------------------------------------------------

\* The number of addGate calls that assign an id.
MaxAddGates == 3

\* The gates a caller hands to a container of n qubits: what the Gate
\* constructor accepts, on qubits the container has and on the first one it
\* does not have.
AddGates(n) ==
    {Gate("H", <<q>>, << >>) : q \in 0..n}
    \cup {Gate("Rz", <<q>>, <<1>>) : q \in {0}}
    \cup {Gate("CNOT", <<q[1], q[2]>>, << >>) : q \in (0..n) \X (0..n)}

\* Circuit::addGate: the circuit after the call and whether the call threw
\* std::out_of_range.
addGateToCircuit(c, g) ==
    IF ~validateGateQubits(c.num_qubits, g)
    THEN [circuit |-> c, threw |-> TRUE]
    ELSE [circuit |-> CircuitAddGate(c, g), threw |-> FALSE]

InitAdd ==
    /\ circuit \in {CircuitNew(n) : n \in 1..DagQubits}
    /\ topology = TopologyNew(1)
    /\ pc = "build"
    /\ err = ""
    /\ NoRoute
    /\ router = DefaultRouter
    /\ wdag \in {DagNew(n) : n \in 1..DagQubits}
    /\ dag_err = ""
    /\ dag_threw = FALSE
    /\ last_pass = NoPass
    /\ last_call = NoCall

\* Circuit::addGate by the caller.  A behaviour drives one of the two
\* containers: they share nothing.
AddToCircuit ==
    /\ wdag.next_gate_id = 0
    /\ last_call.op # "DAG::addGate"
    /\ circuit.next_gate_id < MaxAddGates
    /\ \E g \in AddGates(circuit.num_qubits) :
          LET r == addGateToCircuit(circuit, g)
          IN  /\ circuit' = r.circuit
              /\ last_call' = [op |-> "Circuit::addGate", gate |-> g,
                               before |-> circuit, threw |-> r.threw,
                               id |-> IF r.threw THEN INVALID_GATE_ID
                                      ELSE circuit.next_gate_id,
                               ids |-> IF r.threw THEN << >>
                                       ELSE <<circuit.next_gate_id>>]
    /\ UNCHANGED <<router, topology, pc, err, dag, mapping, reverse_mapping, executed,
                   remaining_deps, front_layer, routed, swaps_inserted, emitted,
                   result, dagVars>>

\* DAG::addGate by the caller.  ids is the history of the ids the successful
\* calls on this DAG returned.
AddToDag ==
    /\ circuit.next_gate_id = 0
    /\ last_call.op # "Circuit::addGate"
    /\ wdag.next_gate_id < MaxAddGates
    /\ \E g \in AddGates(wdag.num_qubits) :
          LET r == DagAddGate(wdag, g)
          IN  /\ wdag' = r.dag
              /\ dag_err' = IF r.threw THEN "out_of_range" ELSE ""
              /\ dag_threw' = (dag_threw \/ r.threw)
              /\ last_call' = [op |-> "DAG::addGate", gate |-> g,
                               before |-> wdag, threw |-> r.threw, id |-> r.id,
                               ids |-> (IF last_call.op = "DAG::addGate"
                                        THEN last_call.ids ELSE << >>)
                                       \o (IF r.threw THEN << >> ELSE <<r.id>>)]
    /\ last_pass' = NoPass
    /\ UNCHANGED routeVars

NextAdd == AddToCircuit \/ AddToDag

SpecAdd == InitAdd /\ [][NextAdd]_vars

\* Some operand of g is not a qubit of a register of n qubits.
OutOfRange(n, g) == \E i \in 1..Len(g.qubits) : g.qubits[i] >= n

\* The ids of a circuit's gates are 0, 1, 2, ... in the order of the gates.
CircuitIdsInOrder(c) == \A i \in 1..Len(c.gates) : c.gates[i].id = i - 1

\* C18 for the two containers, on the last call: what it must have done.
AddGateContract(n, after) ==
    /\ OutOfRange(n, last_call.gate) => last_call.threw
    /\ last_call.threw => after = last_call.before
    /\ ~last_call.threw => last_call.id = last_call.before.next_gate_id

\* C18: addGate of a Circuit and of a DAG fails when an operand of the gate
\* is not below the register size; a call that failed has changed nothing
\* of the container (gates or nodes, edges, per-qubit cursors, next id); so
\* every stored operand is below the register size and the successful calls
\* received the ids 0, 1, 2, ... in order.
C18_AddGateRejectsOutOfRangeAndKeepsIds ==
    /\ last_call.op = "Circuit::addGate"
           => AddGateContract(circuit.num_qubits, circuit)
    /\ last_call.op = "DAG::addGate"
           => /\ AddGateContract(wdag.num_qubits, wdag)
              /\ last_call.ids = [i \in 1..Len(last_call.ids) |-> i - 1]
    /\ CircuitIdsInOrder(circuit)
    /\ \A i \in 1..Len(circuit.gates) : ~OutOfRange(circuit.num_qubits, circuit.gates[i])
    /\ \A id \in DOMAIN wdag.nodes : ~OutOfRange(wdag.num_qubits, wdag.nodes[id].gate)

\* The part of C18 the code keeps: the Circuit half as stated, and the DAG
\* half for a call with a gate of distinct operands on a DAG that no failed
\* call has changed yet.
AddGateContractOfDistinctOperands ==
    /\ last_call.op = "Circuit::addGate"
           => AddGateContract(circuit.num_qubits, circuit)
    /\ CircuitIdsInOrder(circuit)
    /\ \A i \in 1..Len(circuit.gates) : ~OutOfRange(circuit.num_qubits, circuit.gates[i])
    /\ \A id \in DOMAIN wdag.nodes : ~OutOfRange(wdag.num_qubits, wdag.nodes[id].gate)
    /\ last_call.op = "DAG::addGate"
           => /\ OutOfRange(wdag.num_qubits, last_call.gate)
                     => (last_call.threw /\ wdag = last_call.before)
              /\ ~last_call.threw => last_call.id = last_call.before.next_gate_id
              /\ (/\ DOMAIN last_call.before.nodes
                         = 0..(last_call.before.next_gate_id - 1)
                  /\ last_call.threw
                  /\ wdag # last_call.before)
                     => /\ Len(last_call.gate.qubits) = 2
                        /\ last_call.gate.qubits[1] = last_call.gate.qubits[2]

\* ------------------------------------------------------------------------
\* Topology: addEdge, distance and shortestPath in any order
\* ------------------------------------------------------------------------

\* The number of edges a caller adds.
MaxEdges == 4

InitTopo ==
    /\ circuit = CircuitNew(1)
    /\ topology \in {TopologyNew(n) : n \in 1..MaxPhys}
    /\ pc = "build"
    /\ err = ""
    /\ NoRoute
    /\ router = DefaultRouter
    /\ NoDag
    /\ last_call = NoCall

\* Topology::addEdge(q1, q2) on qubits of the device; q1 = q2 throws
\* std::invalid_argument before any change.
TopoAddEdge ==
    /\ \E q1 \in 0..(topology.num_qubits - 1), q2 \in 0..(topology.num_qubits - 1) :
          /\ Len(topology.edges) < MaxEdges \/ connected(topology, q1, q2)
          /\ topology' = IF q1 = q2 THEN topology ELSE addEdge(topology, q1, q2)
          /\ last_call' = [op |-> "Topology::addEdge", threw |-> (q1 = q2)]
    /\ UNCHANGED <<router, circuit, pc, err, dag, mapping, reverse_mapping, executed,
                   remaining_deps, front_layer, routed, swaps_inserted, emitted,
                   result, dagVars>>

\* Topology::distance(q1, q2) on qubits of the device: for q1 # q2 it fills
\* the mutable cache unless the cache is marked as computed, and reads it.
TopoDistance ==
    /\ \E q1 \in 0..(topology.num_qubits - 1), q2 \in 0..(topology.num_qubits - 1) :
          /\ topology' = IF q1 = q2 THEN topology
                         ELSE ensureDistanceComputed(topology)
          /\ last_call' = [op |-> "Topology::distance", q1 |-> q1, q2 |-> q2,
                           before |-> topology,
                           result |-> distance(topology, q1, q2)]
    /\ UNCHANGED <<router, circuit, pc, err, dag, mapping, reverse_mapping, executed,
                   remaining_deps, front_layer, routed, swaps_inserted, emitted,
                   result, dagVars>>

\* Topology::shortestPath(from, to) on qubits of the device; it throws
\* std::runtime_error when its search does not reach `to`.
TopoShortestPath ==
    /\ \E from \in 0..(topology.num_qubits - 1), to \in 0..(topology.num_qubits - 1) :
          LET r == shortestPath(topology, from, to)
          IN  last_call' = [op |-> "Topology::shortestPath", q1 |-> from, q2 |-> to,
                            threw |-> r.threw, path |-> r.path]
    /\ UNCHANGED <<routeVars, dagVars>>

NextTopo == TopoAddEdge \/ TopoDistance \/ TopoShortestPath

SpecTopo == InitTopo /\ [][NextTopo]_vars

RECURSIVE HopsFrom(_, _, _, _)
\* The least number of edges of t on a way from the qubits `reached` (k hops
\* from the start) to b, INFINITE when there is no way.
HopsFrom(t, reached, k, b) ==
    IF b \in reached THEN k
    ELSE LET next == reached \cup {q \in 0..(t.num_qubits - 1) :
                                      \E p \in reached : IsEdge(t, p, q)}
         IN  IF next = reached THEN INFINITE ELSE HopsFrom(t, next, k + 1, b)

\* The minimum hop count between a and b in the edge set of t.
MinHops(t, a, b) == HopsFrom(t, {a}, 0, b)

\* C19: whatever addEdge and distance calls came before, distance(a, b)
\* returns the minimum hop count between a and b in the edges the topology
\* has now, INFINITE when there is no way: 0 for a = b, 1 exactly for the
\* two ends of an edge, the same for (b, a), and never the value cached
\* before a later addEdge.
C19_DistanceIsMinimumHopCount ==
    last_call.op = "Topology::distance"
        => /\ last_call.result = MinHops(topology, last_call.q1, last_call.q2)
           /\ last_call.result = distance(topology, last_call.q2, last_call.q1)
           /\ (last_call.result = 0) = (last_call.q1 = last_call.q2)
           /\ (last_call.result = 1)
                  = (last_call.q1 # last_call.q2
                     /\ IsEdge(topology, last_call.q1, last_call.q2))

\* C19's case: a distance call on a topology whose cache was filled by an
\* earlier distance call and outdated by a later addEdge, for two qubits
\* whose cached distance was another one.
C19_Witness ==
    /\ last_call.op = "Topology::distance"
    /\ last_call.q1 # last_call.q2
    /\ ~last_call.before.distance_computed
    /\ last_call.before.distance_cache # << >>
    /\ last_call.before.distance_cache[last_call.q1][last_call.q2] # last_call.result
    /\ last_call.result > 1

\* C20: shortestPath(a, b) returns, when there is a way from a to b, a
\* sequence from a to b whose consecutive qubits are the ends of an edge and
\* that has distance(a, b) + 1 elements; when there is no way it throws.
C20_ShortestPathIsAShortestPath ==
    last_call.op = "Topology::shortestPath"
        => LET a == last_call.q1
               b == last_call.q2
               path == last_call.path
           IN  IF MinHops(topology, a, b) = INFINITE
               THEN last_call.threw
               ELSE /\ ~last_call.threw
                    /\ path[1] = a
                    /\ path[Len(path)] = b
                    /\ \A i \in 1..(Len(path) - 1) :
                          /\ path[i] # path[i + 1]
                          /\ IsEdge(topology, path[i], path[i + 1])
                    /\ Len(path) = distance(topology, a, b) + 1
                    /\ Len(path) = MinHops(topology, a, b) + 1

\* C20's cases: a path of three qubits on a topology of MaxEdges edges, and
\* a call that throws on a topology that has edges.
C20_Witness ==
    /\ last_call.op = "Topology::shortestPath"
    /\ ~last_call.threw
    /\ Len(last_call.path) = 3
    /\ Len(topology.edges) = MaxEdges

C20_WitnessDisconnected ==
    /\ last_call.op = "Topology::shortestPath"
    /\ last_call.threw
    /\ Len(topology.edges) >= 2

\* ------------------------------------------------------------------------
\* DAG::topologicalOrder, DAG::layers and DAG::depth as linearizations
\* ------------------------------------------------------------------------

\* The subsequence of `order` of the elements that satisfy keep.
RECURSIVE SelectIn(_, _)
SelectIn(order, keep) ==
    IF order = << >> THEN << >>
    ELSE IF Head(order) \in keep THEN <<Head(order)>> \o SelectIn(Tail(order), keep)
    ELSE SelectIn(Tail(order), keep)

RECURSIVE LayerRelax(_, _, _)
\* The inner loop of layers over the successors of one node of the layer:
\* an in-degree above 0 is decremented.
LayerRelax(succs, i, in_degree) ==
    IF i > Len(succs) THEN in_degree
    ELSE LET s == succs[i]
             old == IF s \in DOMAIN in_degree THEN in_degree[s] ELSE 0
         IN  LayerRelax(succs, i + 1,
                        IF old > 0 THEN [in_degree EXCEPT ![s] = old - 1]
                        ELSE (s :> 0) @@ in_degree)

RECURSIVE LayerMark(_, _, _, _)
\* The loop of layers over the ids of the layer just found.
LayerMark(d, layer, i, in_degree) ==
    IF i > Len(layer) THEN in_degree
    ELSE LayerMark(d, layer, i + 1,
                   LayerRelax(d.nodes[layer[i]].successors, 1, in_degree))

RECURSIVE LayersLoop(_, _, _, _, _)
\* The while-loop of layers.  iter is the iteration order of the map
\* in_degree; an empty layer throws std::logic_error.
LayersLoop(d, iter, in_degree, processed, acc) ==
    IF Cardinality(processed) >= Cardinality(DOMAIN d.nodes)
    THEN [threw |-> FALSE, layers |-> acc]
    ELSE LET layer == SelectIn(iter, {id \in DOMAIN in_degree :
                                         in_degree[id] = 0 /\ id \notin processed})
         IN  IF layer = << >> THEN [threw |-> TRUE, layers |-> acc]
             ELSE IF \E i \in 1..Len(layer) : layer[i] \notin DOMAIN d.nodes
             THEN [threw |-> TRUE, layers |-> acc]
             ELSE LayersLoop(d, iter, LayerMark(d, layer, 1, in_degree),
                             processed \cup Range(layer), Append(acc, layer))

\* DAG::layers, iter (a permutation of the node ids) being the order in
\* which the unordered map in_degree is iterated.
layers(d, iter) ==
    IF DOMAIN d.nodes = {} THEN [threw |-> FALSE, layers |-> << >>]
    ELSE LayersLoop(d, iter, [id \in DOMAIN d.nodes |-> inDegree(d, id)], {}, << >>)

\* DAG::depth.
depth(d, iter) == Len(layers(d, iter).layers)

RECURSIVE SmallestReadyFirst(_, _)
\* The linearization that emits, at every step, the smallest id among the
\* nodes whose predecessors have all been placed.
SmallestReadyFirst(d, placed) ==
    LET ready == {id \in DOMAIN d.nodes \ Range(placed) :
                     Range(d.nodes[id].predecessors) \subseteq Range(placed)}
    IN  IF ready = {} THEN placed
        ELSE SmallestReadyFirst(d,
                 Append(placed, CHOOSE id \in ready : \A o \in ready : id <= o))

\* C21: topologicalOrder returns the linearization that emits at every step
\* the smallest id among the nodes whose predecessors have all been emitted,
\* and layers lists the ids of each layer in ascending order.
C21_OrderBreaksTiesByAscendingId ==
    /\ \A first \in Perms(sources(wdag)) :
           LET t == topologicalOrder(wdag, first)
           IN  ~t.threw /\ t.order = SmallestReadyFirst(wdag, << >>)
    /\ \A iter \in Perms(DOMAIN wdag.nodes) :
           LET l == layers(wdag, iter)
           IN  /\ ~l.threw
               /\ \A k \in 1..Len(l.layers) :
                      \A i \in 1..(Len(l.layers[k]) - 1) :
                          l.layers[k][i] < l.layers[k][i + 1]

\* The part of C21 the code keeps on a DAG none of whose calls threw:
\* whatever the iteration order, the queue discipline gives a linearization
\* of all nodes and the layers partition the nodes.
OrderIsSomeLinearization ==
    ~dag_threw =>
        \A iter \in Perms(DOMAIN wdag.nodes) :
            LET l == layers(wdag, iter)
                t == topologicalOrder(wdag, SelectIn(iter, sources(wdag)))
            IN  /\ ~l.threw /\ ~t.threw
                /\ Range(t.order) = DOMAIN wdag.nodes
                /\ UNION {Range(l.layers[k]) : k \in 1..Len(l.layers)} = DOMAIN wdag.nodes

\* C22: on a DAG built by fromCircuit, addGate and removeNode, none of whose
\* calls threw, depth() is the number of layers and is the depth of the
\* earliest-possible schedule of its gates: the depth Circuit::depth gives
\* for toCircuit().
C22_DepthIsCircuitDepth ==
    ~dag_threw =>
        \A iter \in Perms(DOMAIN wdag.nodes) :
            LET l == layers(wdag, iter)
                c == toCircuit(wdag, SelectIn(iter, sources(wdag)))
            IN  /\ ~l.threw /\ ~c.threw
                /\ depth(wdag, iter) = Len(l.layers)
                /\ depth(wdag, iter) = CircuitDepth(c.circuit)

\* The part of C22 the code keeps: the two depths agree as long as no node
\* was removed from the DAG.
DepthIsCircuitDepthWithoutRemoval ==
    (~dag_threw /\ DOMAIN wdag.nodes = 0..(wdag.next_gate_id - 1)) =>
        \A iter \in Perms(DOMAIN wdag.nodes) :
            LET c == toCircuit(wdag, SelectIn(iter, sources(wdag)))
            IN  ~c.threw /\ depth(wdag, iter) = CircuitDepth(c.circuit)

\* ------------------------------------------------------------------------
\* Routing with a SabreRouter constructed with arguments of the caller
\* ------------------------------------------------------------------------

\* Width of the circuits, width of the devices and number of gates routed
\* with constructor arguments other than the defaults.
SettingsQubits == 4
SettingsPhys == 5
SettingsGates == 4

\* SabreRouter(lookahead_depth, decay_factor, extended_set_weight): the
\* defaults, a lookahead of one gate, and the products decay_factor *
\* extended_set_weight = 2 and = 4 (as of 1.0 and 2.0, 2.0 and 2.0).
RouterSettings ==
    {[lookahead_depth |-> l, decay_weight |-> w] :
        l \in {1, lookahead_depth}, w \in {1, 2 * ScoreScale, 4 * ScoreScale}}

InitSettings ==
    /\ router \in RouterSettings
    /\ circuit = CircuitNew(SettingsQubits)
    /\ topology \in {ensureDistanceComputed(t) :
                        t \in {linear(SettingsPhys), ring(SettingsPhys)}}
    /\ pc = "build"
    /\ err = ""
    /\ NoRoute
    /\ NoDag
    /\ last_call = NoCall

\* Circuit::addGate by the caller, of Gate::cnot(a, b) with a < b.
SettingsAddGate ==
    /\ pc = "build"
    /\ Len(circuit.gates) < SettingsGates
    /\ \E a \in 0..(circuit.num_qubits - 1), b \in 0..(circuit.num_qubits - 1) :
          /\ a < b
          /\ circuit' = CircuitAddGate(circuit, Gate("CNOT", <<a, b>>, << >>))
    /\ UNCHANGED <<router, topology, pc, err, dag, mapping, reverse_mapping, executed,
                   remaining_deps, front_layer, routed, swaps_inserted, emitted,
                   result, dagVars, callVars>>

\* route on these circuits and devices: no call throws, and every active
\* qubit has a neighbour, so selectBestSwap always returns a pair.
NextSettings ==
    \/ SettingsAddGate
    \/ RouteEmpty
    \/ RouteBegin
    \/ ExecuteRound
    \/ SwapRound
    \/ RouteReturn

SpecSettings == InitSettings /\ [][NextSettings]_vars

\* The SWAPs inserted since the last gate was executed: the positions at the
\* end of the routed circuit that hold a SWAP.
TrailingSwaps ==
    {i \in SwapPositions : \A j \in i..Len(emitted) : j \in SwapPositions}

\* C23: route terminates on a connected topology whatever the arguments the
\* SabreRouter was constructed with.  The next iteration of the loop is
\* decided by the mapping, the front layer and the executed set alone, so
\* the loop never ends once SWAPs alone bring it back to a mapping it had
\* since the last gate it executed; here: they never do.
C23_NoSettingMakesRouteSwapForever ==
    (pc = "loop" /\ isConnected(topology)) =>
        \A i \in TrailingSwaps : MappingBefore(i) # mapping

\* The same for the SabreRouter constructed without arguments.
DefaultRouterNeverRepeatsAMapping ==
    (pc = "loop" /\ isConnected(topology) /\ router = DefaultRouter) =>
        \A i \in TrailingSwaps : MappingBefore(i) # mapping

\* ------------------------------------------------------------------------
\* Gate ids over the life of one DAG (DAG::addGate, removeNode, clear)
\* ------------------------------------------------------------------------

\* How many gate ids the DAG may hand out between two calls of clear.
MaxIds == 3

\* A faulty clear that empties the DAG and goes on counting ids.
DagClearKeepIds(d) ==
    [d EXCEPT !.nodes = << >>,
              !.last_gate_on_qubit = [q \in DOMAIN d.last_gate_on_qubit |-> INVALID_GATE_ID]]

\* DAG::clear.
DagClear(d) ==
    [d EXCEPT !.nodes = << >>,
              !.last_gate_on_qubit = [q \in DOMAIN d.last_gate_on_qubit |-> INVALID_GATE_ID],
              !.next_gate_id = 0]

\* The ids addGate has returned on this DAG up to and including the last
\* call observed, and those of them returned since the last clear.
IdsIssued ==
    IF last_call.op = "none" THEN {}
    ELSE last_call.issued \cup
             (IF last_call.op = "addGate" /\ ~last_call.threw THEN {last_call.returned} ELSE {})

IdsSinceClear ==
    IF last_call.op \in {"none", "clear"} THEN {}
    ELSE last_call.since_clear \cup
             (IF last_call.op = "addGate" /\ ~last_call.threw THEN {last_call.returned} ELSE {})

\* What is recorded of a call: its name, the call before it, whether it
\* threw, the id it returned, and the ids addGate had returned before it.
IdCall(op, threw, returned) ==
    [op |-> op, prev |-> last_call.op, threw |-> threw, returned |-> returned,
     issued |-> IdsIssued, since_clear |-> IdsSinceClear]

InitIds ==
    /\ circuit = CircuitNew(1)
    /\ topology = TopologyNew(1)
    /\ pc = "build"
    /\ err = ""
    /\ NoRoute
    /\ router = DefaultRouter
    /\ wdag \in {DagNew(n) : n \in 1..DagQubits}
    /\ dag_err = ""
    /\ dag_threw = FALSE
    /\ last_pass = NoPass
    /\ last_call = NoCall

\* DAG::addGate.
IdsAddGate ==
    /\ wdag.next_gate_id < MaxIds
    /\ \E g \in DagGates(wdag.num_qubits) :
          /\ validate(g.type, g.qubits, g.parameter)
          /\ LET r == DagAddGate(wdag, g)
             IN  /\ wdag' = r.dag
                 /\ dag_err' = IF r.threw THEN "out_of_range" ELSE ""
                 /\ dag_threw' = (dag_threw \/ r.threw)
                 /\ last_call' = IdCall("addGate", r.threw, r.id)
    /\ UNCHANGED <<routeVars, last_pass>>

\* DAG::removeNode, on a live id or not.
IdsRemoveNode ==
    /\ \E id \in 0..(MaxIds - 1) :
          LET r == DagRemoveNode(wdag, id)
          IN  /\ wdag' = r.dag
              /\ dag_err' = IF r.threw THEN "out_of_range" ELSE ""
              /\ dag_threw' = (dag_threw \/ r.threw)
              /\ last_call' = IdCall("removeNode", r.threw, INVALID_GATE_ID)
    /\ UNCHANGED <<routeVars, last_pass>>

\* DAG::clear.
IdsClear ==
    /\ wdag' = DagClear(wdag)
    /\ dag_err' = ""
    /\ last_call' = IdCall("clear", FALSE, INVALID_GATE_ID)
    /\ UNCHANGED <<routeVars, dag_threw, last_pass>>

NextIds == IdsAddGate \/ IdsRemoveNode \/ IdsClear

SpecIds == InitIds /\ [][NextIds]_vars

\* addGate was the last call and returned an id.
AddGateReturned == last_call.op = "addGate" /\ ~last_call.threw

\* C24: over any sequence of addGate, removeNode and clear on one DAG,
\* addGate never returns a gate id that an earlier addGate on the same DAG
\* has returned.
C24_AddGateNeverReturnsAnEarlierId ==
    AddGateReturned => last_call.returned \notin last_call.issued

\* C24 (amended): addGate never returns an id that addGate has returned since
\* the DAG was constructed or last cleared, whatever was removed in between;
\* clear starts the ids again, so the addGate that follows a clear returns 0,
\* which an addGate before the clear may have returned.
C24_IdsRestartOnlyAtClear ==
    AddGateReturned =>
        /\ last_call.returned \notin last_call.since_clear
        /\ last_call.prev = "clear" => last_call.returned = 0

\* addGate returns an id again that it returned before a clear, and an
\* addGate follows a removeNode after ids were handed out.
C24_Witness ==
    /\ AddGateReturned
    /\ last_call.prev = "clear"
    /\ last_call.returned \in last_call.issued

C24_WitnessAfterRemoval ==
    /\ AddGateReturned
    /\ last_call.prev = "removeNode"
    /\ last_call.since_clear # {}
    /\ Cardinality(DOMAIN wdag.nodes) < Cardinality(last_call.since_clear) + 1

\* ------------------------------------------------------------------------
\* The swap passes of routeForward
\* ------------------------------------------------------------------------

\* The width of the circuits routed here, and of the devices.
SwapPassQubits == 6

\* The operand pairs of the CNOTs of those circuits.
SwapPassPairs == {<<0, 5>>, <<4, 2>>, <<0, 3>>, <<5, 0>>, <<3, 4>>, <<1, 2>>}

\* The circuits: one CNOT on each of the pairs, in any order.
SwapPassCircuits ==
    {CircuitOf(SwapPassQubits, [i \in DOMAIN order |->
                                   Gate("CNOT", order[i], << >>)]) :
        order \in Perms(SwapPassPairs)}

\* A default SabreRouter, a circuit and a connected device of its width.
InitSwapPass ==
    /\ router = DefaultRouter
    /\ circuit \in SwapPassCircuits
    /\ topology \in {ensureDistanceComputed(t) :
                        t \in {linear(SwapPassQubits), ring(SwapPassQubits)}}
    /\ pc = "build"
    /\ err = ""
    /\ NoRoute
    /\ NoDag
    /\ last_call = NoCall

NextSwapPass == RouteBegin \/ ExecuteRound \/ SwapRound \/ RouteReturn

SpecSwapPass == InitSwapPass /\ [][NextSwapPass]_vars

\* The sum, over the two-qubit gates of the front layer, of the distance
\* between the physical qubits the mapping m gives their operands.
FrontLayerDistance(m) == SumFinite(dag, topology, m, front_layer)

\* This step is a swap pass: nothing was executable and one SWAP went in.
SwapPass == pc = "loop" /\ swaps_inserted' = swaps_inserted + 1

\* C25: on a connected topology every swap pass strictly decreases the sum
\* of the front-layer distances.
C25_SwapPassDecreasesFrontDistance ==
    [][(SwapPass /\ isConnected(topology)) =>
           FrontLayerDistance(mapping') < FrontLayerDistance(mapping)]_vars

\* A swap pass of the default router never increases that sum on these
\* inputs.
SwapPassKeepsFrontDistance ==
    [][(SwapPass /\ isConnected(topology)) =>
           FrontLayerDistance(mapping') <= FrontLayerDistance(mapping)]_vars

\* ------------------------------------------------------------------------
\* The cursors last_gate_on_qubit_ of a DAG
\* ------------------------------------------------------------------------

\* The nodes that touch q and have no successor touching q.
LatestOn(d, q) ==
    {u \in Touching(d, q) :
        ~\E v \in Range(d.nodes[u].successors) : v \in Touching(d, q)}

\* The cursor of q names the latest node touching q, or no node when none
\* touches q.
CursorIsLatest(d, q) ==
    IF Touching(d, q) = {} THEN d.last_gate_on_qubit[q] = INVALID_GATE_ID
    ELSE LatestOn(d, q) = {d.last_gate_on_qubit[q]}

\* C26: on a DAG none of whose calls threw, after any sequence of addGate
\* and removeNode the cursor of every qubit is the latest node touching it;
\* so removing the last node on q sets the cursor back to the node just
\* before it on q, also when several predecessors of the removed node
\* touch q.
C26_CursorIsLatestNodeOnQubit ==
    ~dag_threw => \A q \in DOMAIN wdag.last_gate_on_qubit : CursorIsLatest(wdag, q)

\* The same of the DAGs nothing was removed from.
CursorIsLatestWithoutRemoval ==
    (~dag_threw /\ Cardinality(DOMAIN wdag.nodes) = wdag.next_gate_id) =>
        \A q \in DOMAIN wdag.last_gate_on_qubit : CursorIsLatest(wdag, q)

\* ------------------------------------------------------------------------
\* RotationMergePass on runs of rotations on one qubit
\* ------------------------------------------------------------------------

\* The largest angle of a rotation the caller adds, in units of pi/2, and
\* how many gate ids the DAG may give out.
MaxAngle == 3
MaxMergeNodes == 3

\* The rotations a caller adds, as Gate::rx and Gate::rz build them.
MergeGates ==
    {Gate(type, <<0>>, <<a>>) : type \in {"Rx", "Rz"}, a \in (0 - MaxAngle)..MaxAngle}

InitMerge ==
    /\ circuit = CircuitNew(1)
    /\ topology = TopologyNew(1)
    /\ pc = "build"
    /\ err = ""
    /\ NoRoute
    /\ router = DefaultRouter
    /\ wdag = DagNew(1)
    /\ dag_err = ""
    /\ dag_threw = FALSE
    /\ last_pass = NoPass
    /\ last_call = NoCall

\* DAG::addGate by the caller.
MergeAddGate ==
    /\ wdag.next_gate_id < MaxMergeNodes
    /\ \E g \in MergeGates :
          LET r == DagAddGate(wdag, g)
          IN  /\ wdag' = r.dag
              /\ dag_err' = IF r.threw THEN "out_of_range" ELSE ""
              /\ dag_threw' = (dag_threw \/ r.threw)
    /\ last_call' = NoCall
    /\ UNCHANGED <<routeVars, last_pass>>

\* RotationMergePass::run(dag).
MergeRun ==
    /\ \E r \in RotationMergeRun(wdag) :
          /\ wdag' = r.dag
          /\ dag_err' = r.err
          /\ dag_threw' = (dag_threw \/ r.err # "")
          /\ last_call' = [op |-> "RotationMergePass::run", before |-> wdag,
                           err |-> r.err, gates_removed |-> r.gates_removed]
    /\ UNCHANGED <<routeVars, last_pass>>

NextMerge == MergeAddGate \/ MergeRun

SpecMerge == InitMerge /\ [][NextMerge]_vars

\* The runs of the one-qubit DAG d: <<a, b>> for ids a <= b such that the
\* live nodes from a to b are rotations about one axis and no live node next
\* to them on either side is a rotation about that axis.
SameAxisRuns(d) ==
    LET live == DOMAIN d.nodes
        axis(id) == d.nodes[id].gate.type
        block(a, b) == \A id \in live : (a <= id /\ id <= b) => axis(id) = axis(a)
    IN  {r \in live \X live :
            /\ r[1] <= r[2]
            /\ block(r[1], r[2])
            /\ \A id \in live : id < r[1] => ~block(id, r[2])
            /\ \A id \in live : id > r[2] => ~block(r[1], id)}

RECURSIVE AngleSum(_, _)
\* The sum of the angles of the nodes `ids` of d.
AngleSum(d, ids) ==
    IF ids = {} THEN 0
    ELSE LET id == CHOOSE x \in ids : TRUE
         IN  d.nodes[id].gate.parameter[1] + AngleSum(d, ids \ {id})

\* The live nodes of d from a to b.
RunNodes(d, r) == {id \in DOMAIN d.nodes : r[1] <= id /\ id <= r[2]}

\* RotationMergePass::run was the last call and did not throw.
MergeRan == last_call.op = "RotationMergePass::run" /\ last_call.err = ""

\* What the pass left of the run r of the DAG it started from is its first
\* node alone, with an angle InRange accepts that is congruent to the sum of
\* the run's angles (a run of one node keeps its gate).
RunMerged(r, InRange(_)) ==
    LET b == last_call.before
        ids == RunNodes(b, r)
    IN  /\ ids \cap DOMAIN wdag.nodes = {r[1]}
        /\ IF Cardinality(ids) = 1
           THEN wdag.nodes[r[1]].gate = b.nodes[r[1]].gate
           ELSE LET angle == wdag.nodes[r[1]].gate.parameter[1]
                IN  /\ wdag.nodes[r[1]].gate.type = b.nodes[r[1]].gate.type
                    /\ (angle - AngleSum(b, ids)) % TWO_PI = 0
                    /\ InRange(angle)

InHalfOpenRange(angle) == 0 - PI < angle /\ angle <= PI
InClosedRange(angle) == 0 - PI <= angle /\ angle <= PI

C27_WitnessRunOfThree ==
    /\ MergeRan
    /\ \E r \in SameAxisRuns(last_call.before) :
           /\ Cardinality(RunNodes(last_call.before, r)) = 3
           /\ DOMAIN wdag.nodes = {r[1]}

\* ------------------------------------------------------------------------
\* CommutationPass as the pass that changes nothing
\* ------------------------------------------------------------------------

Occurrences(s, x) == Cardinality({i \in 1..Len(s) : s[i] = x})

\* Every entry of an edge list is a live node other than the list's owner,
\* and v is as often a successor of u as u is a predecessor of v.
EdgeListsConsistent(d) ==
    /\ \A u \in DOMAIN d.nodes :
           Range(d.nodes[u].successors) \cup Range(d.nodes[u].predecessors)
               \subseteq DOMAIN d.nodes \ {u}
    /\ \A u, v \in DOMAIN d.nodes :
           Occurrences(d.nodes[u].successors, v) = Occurrences(d.nodes[v].predecessors, u)

\* This step is a removeNode that returned.
RemoveNodeStep ==
    /\ DOMAIN wdag'.nodes # DOMAIN wdag.nodes
    /\ DOMAIN wdag'.nodes \subseteq DOMAIN wdag.nodes
    /\ ~dag_threw'

\* An edge list that had v keeps as many copies of it, and one that had none
\* gets one at most.
NoSecondCopy ==
    \A u, v \in DOMAIN wdag'.nodes :
        /\ Occurrences(wdag'.nodes[u].successors, v)
               <= IF Occurrences(wdag.nodes[u].successors, v) = 0 THEN 1
                  ELSE Occurrences(wdag.nodes[u].successors, v)
        /\ Occurrences(wdag'.nodes[v].predecessors, u)
               <= IF Occurrences(wdag.nodes[v].predecessors, u) = 0 THEN 1
                  ELSE Occurrences(wdag.nodes[v].predecessors, u)

\* C29: after any sequence of addGate and removeNode the edge lists are
\* consistent with each other, name live nodes only and never their owner,
\* and the contraction of removeNode adds no second copy of an edge.
C29_EdgeListsStayConsistent ==
    /\ [](EdgeListsConsistent(wdag))
    /\ [][RemoveNodeStep => NoSecondCopy]_vars

\* The same while no call on the DAG has thrown.
EdgeListsConsistentUnlessThrown ==
    /\ [](~dag_threw => EdgeListsConsistent(wdag))
    /\ [][RemoveNodeStep => NoSecondCopy]_vars

\* ------------------------------------------------------------------------
\* Routing on a topology that is not connected
\* ------------------------------------------------------------------------

\* The width of the circuits routed here and the most gates they hold.
SplitQubits == 3
SplitGates == 2

\* Devices in several pieces, built with addEdge: the edge 0-1 and every
\* other qubit alone; no edge at all; one more qubit and the edge between the
\* last two as well.
SplitTopologies ==
    {ensureDistanceComputed(t) : t \in
        {addEdge(TopologyNew(SplitQubits), 0, 1),
         TopologyNew(SplitQubits),
         addEdge(addEdge(TopologyNew(SplitQubits + 1), 0, 1),
                 SplitQubits - 1, SplitQubits)}}

InitSplit ==
    /\ router = DefaultRouter
    /\ circuit = CircuitNew(SplitQubits)
    /\ topology \in SplitTopologies
    /\ pc = "build"
    /\ err = ""
    /\ NoRoute
    /\ NoDag
    /\ last_call = NoCall

\* Circuit::addGate by the caller, with a gate of Gate::h or Gate::cnot.
SplitAddGate ==
    /\ pc = "build"
    /\ Len(circuit.gates) < SplitGates
    /\ \E g \in {Gate("H", <<q>>, << >>) : q \in 0..(circuit.num_qubits - 1)}
                \cup {Gate("CNOT", <<q[1], q[2]>>, << >>) :
                         q \in {x \in (0..(circuit.num_qubits - 1))
                                          \X (0..(circuit.num_qubits - 1)) : x[1] # x[2]}} :
          circuit' = CircuitAddGate(circuit, g)
    /\ UNCHANGED <<router, topology, pc, err, dag, mapping, reverse_mapping, executed,
                   remaining_deps, front_layer, routed, swaps_inserted, emitted,
                   result, dagVars, callVars>>

NextSplit ==
    \/ SplitAddGate
    \/ RouteEmpty
    \/ RouteBegin
    \/ ExecuteRound
    \/ SwapRound
    \/ FallbackRound
    \/ RouteReturn

SpecSplit == InitSplit /\ [][NextSplit]_vars

\* A two-qubit gate of the front layer has its operands on physical qubits
\* no path joins.
FrontGateAcrossComponents ==
    \E i \in 1..Len(front_layer) :
        /\ Len(dag.nodes[front_layer[i]].gate.qubits) = 2
        /\ GateDistance(dag, topology, mapping, front_layer[i]) = INFINITE

\* C30: on a topology that is not connected, with a front-layer gate whose
\* operands lie in different components, route does not insert SWAPs for
\* ever: SWAPs alone never bring the loop back to a mapping it had since the
\* last gate it executed (from where its next iterations repeat).
C30_RouteEndsAcrossComponents ==
    (pc = "loop" /\ ~isConnected(topology) /\ FrontGateAcrossComponents) =>
        \A i \in TrailingSwaps : MappingBefore(i) # mapping

\* route ends with the exception of shortestPath when no active qubit has a
\* neighbour, and returns when every gate lies within one component.
SplitRouteThrowsNoPath == pc = "error" => err = "runtime_error: no path"

====
